---- MODULE Spec2Model ----
(***************************************************************************)
(* Model of backend/server.py: the retry wrapper (retry_with_backoff), the *)
(* request coalescer (deduplicate_requests), the TTL cache                 *)
(* (cache_resource / get_cached_resource), the fetch-with-cache reads      *)
(* (get_sheet_data / get_drive_folder), the collaboration channels         *)
(* (collaborate_websocket / broadcast_to_sheet) and the bulk operation     *)
(* pipeline (bulk_update / bulk_delete / bulk_import,                      *)
(* process_bulk_operation, get_bulk_status).                               *)
(*                                                                         *)
(* An asyncio coroutine is modelled as a process whose actions are the     *)
(* segments between two awaits; everything between two awaits is atomic,   *)
(* as it is on the single-threaded event loop.                             *)
(***************************************************************************)
EXTENDS Integers, Sequences, FiniteSets, TLC

\* ---------------------------------------------------------------- bounds
MaxRetries == 3      \* largest max_retries given to retry_with_backoff
MaxBase == 3         \* largest base_delay
MaxCap == 3          \* largest max_delay
MaxFactor == 2       \* largest backoff_factor
NCallers == 3        \* concurrent callers of one coalesced operation
MaxTime == 3         \* the clock runs from 0 to MaxTime (hours)
MaxRequests == 2     \* requests served by the read model
MaxPages == 2        \* pages of a Drive folder listing
CACHE_TTL_HOURS == 2 \* the configured TTL, scaled to the clock
NConns == 3          \* websocket connections of the collaboration model
MaxEvents == 4       \* connection arrivals plus events messages of the model
MaxSubscribers == 2   \* connections that arrive while a bulk pipeline is modelled
MaxBatch == 50       \* largest batch whose progress figures are computed

VARIABLES
    \* one run of retry_with_backoff(...)(func)
    max_retries, base_delay, max_delay, backoff_factor,
    rw_pc,            \* "call" | "sleep" | "returned" | "raised"
    attempt,          \* loop variable of `for attempt in range(max_retries + 1)`
    delay,            \* local `delay`
    last_exception,   \* local `last_exception`
    calls,            \* outcome of every invocation of func, in order
    sleeps,           \* argument of every asyncio.sleep, in order
    rw_out,           \* what the wrapper returned or raised
    \* deduplicate_requests(func) and its callers
    ongoing_requests, \* the module-level dict: key -> future
    futures,          \* the asyncio.Future objects created by the wrapper
    cleanups,         \* the cleanup() tasks created and not yet run
    invocations,      \* every invocation of func: its key and how it ended
    c_pc,             \* caller: "idle" | "running" | "awaiting" | "done"
    c_key,            \* caller: the key of its call
    c_fut,            \* caller: the future it created or awaits (0: none)
    c_inv,            \* caller: the invocation of func it made (0: none)
    c_out,            \* caller: what its call returned or raised
    c_arrival,        \* history: what the caller's call found on arrival
    \* the cache collection and the read handlers
    now,              \* datetime.now(timezone.utc), in hours
    cache,            \* db.cache: a set of documents
    req,              \* per client: the handler it runs and the handler's locals
    served,           \* number of requests accepted so far
    last_resp,        \* the response sent last, and what its handler logged
    last_call,        \* history: per key, the last completed cache_resource call
    last_stored,      \* history: per key, the last write that reached the store
    \* the collaboration channels
    active_connections, \* the module-level dict: sheet_type -> list of websockets
    user_presence,    \* the module-level dict: sheet_type -> user_id -> presence
    operation_history, \* the module-level dict: sheet_type -> list of operations
    collaborative_operations, \* db.collaborative_operations
    ws,               \* per connection: the locals of its collaborate_websocket
    closed,           \* the connections whose socket is closed
    events,           \* number of connections and events messages accepted so far
    last_in,          \* history: the events message received last, and by whom
    \* the bulk operation pipeline
    bulk_op,          \* the BulkOperation object of the submitted batch
    task,             \* the process_bulk_operation task: position and locals
    bulk_operations,  \* db.bulk_operations
    bulk_resp,        \* the response of the bulk endpoint
    status_resp,      \* the response of the last get_bulk_status
    bulk_log,         \* history: the persists and broadcasts of the task, in order
    status_trail,     \* history: every value assigned to bulk_op.status
    meter             \* the progress figures of one run of the loop

retryVars == <<max_retries, base_delay, max_delay, backoff_factor, rw_pc,
               attempt, delay, last_exception, calls, sleeps, rw_out>>

dedupVars == <<ongoing_requests, futures, cleanups, invocations, c_pc, c_key,
               c_fut, c_inv, c_out, c_arrival>>

readVars == <<now, cache, req, served, last_resp, last_call, last_stored>>

collabVars == <<active_connections, user_presence, operation_history,
                collaborative_operations, ws, closed, events, last_in>>

bulkVars == <<bulk_op, task, bulk_operations, bulk_resp, status_resp, bulk_log,
              status_trail>>

vars == <<retryVars, dedupVars, readVars, collabVars, bulkVars, meter>>

\* ------------------------------------------------------------ exceptions
NoResponse == 0                           \* the exception has no .response
TRANSIENT_STATUS == {429, 500, 502, 503, 504}
PERMANENT_STATUS == {403, 404}
NoException == [id |-> 0, response |-> NoResponse]

Min(a, b) == IF a <= b THEN a ELSE b

IsRetriable_AnyStatus(e) == e.response # NoResponse

\* `hasattr(e, 'response') and e.response` and `status_code in [...]`
IsRetriable(e) == e.response # NoResponse /\ e.response \in TRANSIENT_STATUS

RetryDecision_OffByOne(e, att, maxr) ==
    IF IsRetriable(e) /\ att <= maxr THEN "retry" ELSE "raise"

\* what the except-branch of the wrapper does with exception e
RetryDecision(e, att, maxr) ==
    IF IsRetriable(e) /\ att < maxr THEN "retry" ELSE "raise"

\* `delay = min(delay * backoff_factor, max_delay)`
NextDelay(d, factor, cap) == Min(d * factor, cap)

RecordException_KeepFirst(prev, e) == IF prev = NoException THEN e ELSE prev

\* `last_exception = e`
RecordException(prev, e) == e

\* ------------------------------------------------- retry_with_backoff run
RetryInit ==
    /\ max_retries \in 0..MaxRetries
    /\ base_delay \in 1..MaxBase
    /\ max_delay \in 1..MaxCap
    /\ backoff_factor \in 1..MaxFactor
    /\ rw_pc = "call"
    /\ attempt = 0
    /\ delay = base_delay
    /\ last_exception = NoException
    /\ calls = <<>>
    /\ sleeps = <<>>
    /\ rw_out = [kind |-> "none", exc |-> NoException]

\* `return await func(*args, **kwargs)`: the producer returns
RetryCallReturns ==
    /\ rw_pc = "call"
    /\ calls' = Append(calls, [ok |-> TRUE, response |-> NoResponse])
    /\ rw_pc' = "returned"
    /\ rw_out' = [kind |-> "return", exc |-> NoException]
    /\ UNCHANGED <<max_retries, base_delay, max_delay, backoff_factor,
                   attempt, delay, last_exception, sleeps>>

\* the producer raises e: `last_exception = e`, then retry or break + raise
RetryCallRaises(resp) ==
    /\ rw_pc = "call"
    /\ LET e == [id |-> Len(calls) + 1, response |-> resp] IN
        /\ calls' = Append(calls, [ok |-> FALSE, response |-> resp])
        /\ last_exception' = RecordException(last_exception, e)
        /\ IF RetryDecision(e, attempt, max_retries) = "retry"
           THEN /\ rw_pc' = "sleep"
                /\ rw_out' = rw_out
           ELSE \* break; `raise last_exception`
                /\ rw_pc' = "raised"
                /\ rw_out' = [kind |-> "raise", exc |-> last_exception']
    /\ UNCHANGED <<max_retries, base_delay, max_delay, backoff_factor,
                   attempt, delay, sleeps>>

\* `await asyncio.sleep(delay)`, the delay update and `continue`
RetrySleep ==
    /\ rw_pc = "sleep"
    /\ sleeps' = Append(sleeps, delay)
    /\ delay' = NextDelay(delay, backoff_factor, max_delay)
    /\ attempt' = attempt + 1
    /\ rw_pc' = "call"
    /\ UNCHANGED <<max_retries, base_delay, max_delay, backoff_factor,
                   last_exception, calls, rw_out>>

RetryStep ==
    \/ RetryCallReturns
    \/ \E resp \in TRANSIENT_STATUS \cup PERMANENT_STATUS \cup {NoResponse} :
          RetryCallRaises(resp)
    \/ RetrySleep

\* the wrapper is not in use
RetryOff ==
    /\ max_retries = 0 /\ base_delay = 1 /\ max_delay = 1 /\ backoff_factor = 1
    /\ rw_pc = "off" /\ attempt = 0 /\ delay = 1
    /\ last_exception = NoException
    /\ calls = <<>> /\ sleeps = <<>>
    /\ rw_out = [kind |-> "none", exc |-> NoException]

\* ------------------------------------------------- deduplicate_requests
Callers == 1..NCallers
DedupKeys == {"k1", "k2"}
NoOutcome == [kind |-> "none", inv |-> 0]

ShouldJoin_Never(key, table, futs) == FALSE

ShouldJoin_OnlyPending(key, table, futs) ==
    key \in DOMAIN table /\ futs[table[key]].kind = "none"

\* `if key in ongoing_requests:`
ShouldJoin(key, table, futs) == key \in DOMAIN table

\* ongoing_requests[key] = future
DictSet(table, key, val) ==
    [x \in DOMAIN table \cup {key} |-> IF x = key THEN val ELSE table[x]]

\* the identity of a new object: the first one not in use
NewId(objs) == CHOOSE n \in 1..(Cardinality(DOMAIN objs) + 1) : n \notin DOMAIN objs

\* ongoing_requests.pop(key, None)
DictPop(table, key) == [x \in DOMAIN table \ {key} |-> table[x]]

\* what the call finds when it arrives (recorded, never read by the code)
Arrival(c, key) ==
    IF \E o \in Callers : c_pc[o] = "running" /\ c_key[o] = key
    THEN [case |-> "inflight",
          with |-> CHOOSE o \in Callers : c_pc[o] = "running" /\ c_key[o] = key,
          fut |-> 0]
    ELSE IF key \in DOMAIN ongoing_requests /\ futures[ongoing_requests[key]].kind = "none"
    THEN [case |-> "abandoned", with |-> 0, fut |-> ongoing_requests[key]]
    ELSE IF key \in DOMAIN ongoing_requests
    THEN [case |-> "grace", with |-> 0, fut |-> ongoing_requests[key]]
    ELSE IF \E i \in 1..Len(invocations) : invocations[i].key = key
    THEN [case |-> "removed", with |-> 0, fut |-> 0]
    ELSE [case |-> "first", with |-> 0, fut |-> 0]

DedupInit ==
    /\ ongoing_requests = <<>>
    /\ futures = <<>>
    /\ cleanups = {}
    /\ invocations = <<>>
    /\ c_pc = [c \in Callers |-> "idle"]
    /\ c_key = [c \in Callers |-> "k1"]
    /\ c_fut = [c \in Callers |-> 0]
    /\ c_inv = [c \in Callers |-> 0]
    /\ c_out = [c \in Callers |-> NoOutcome]
    /\ c_arrival = [c \in Callers |-> [case |-> "none", with |-> 0, fut |-> 0]]

\* wrapper entry, key found: `return await ongoing_requests[key]`
DedupJoin(c, key) ==
    /\ c_pc[c] = "idle"
    /\ ShouldJoin(key, ongoing_requests, futures)
    /\ LET f == ongoing_requests[key] IN
        /\ c_fut' = [c_fut EXCEPT ![c] = f]
        /\ IF futures[f].kind = "none"
           THEN /\ c_pc' = [c_pc EXCEPT ![c] = "awaiting"]
                /\ c_out' = c_out
           ELSE \* awaiting a future that is done does not suspend
                /\ c_pc' = [c_pc EXCEPT ![c] = "done"]
                /\ c_out' = [c_out EXCEPT ![c] = futures[f]]
    /\ c_key' = [c_key EXCEPT ![c] = key]
    /\ c_arrival' = [c_arrival EXCEPT ![c] = Arrival(c, key)]
    /\ UNCHANGED <<ongoing_requests, futures, cleanups, invocations, c_inv>>

\* wrapper entry, key not found: create the future, register it, call func
DedupStart(c, key) ==
    /\ c_pc[c] = "idle"
    /\ ~ShouldJoin(key, ongoing_requests, futures)
    /\ futures' = Append(futures, NoOutcome)
    /\ ongoing_requests' = DictSet(ongoing_requests, key, Len(futures) + 1)
    /\ invocations' = Append(invocations, [key |-> key, kind |-> "none"])
    /\ c_pc' = [c_pc EXCEPT ![c] = "running"]
    /\ c_key' = [c_key EXCEPT ![c] = key]
    /\ c_fut' = [c_fut EXCEPT ![c] = Len(futures) + 1]
    /\ c_inv' = [c_inv EXCEPT ![c] = Len(invocations) + 1]
    /\ c_arrival' = [c_arrival EXCEPT ![c] = Arrival(c, key)]
    /\ UNCHANGED <<cleanups, c_out>>

\* func returns (kind = "result": set_result, return) or raises
\* (kind = "exception": set_exception, raise); finally: create_task(cleanup())
DedupFinish(c, kind) ==
    /\ c_pc[c] = "running"
    /\ LET out == [kind |-> kind, inv |-> c_inv[c]] IN
        /\ futures' = [futures EXCEPT ![c_fut[c]] = out]
        /\ c_out' = [c_out EXCEPT ![c] = out]
    /\ invocations' = [invocations EXCEPT ![c_inv[c]].kind = kind]
    /\ cleanups' = cleanups \cup {[key |-> c_key[c], fut |-> c_fut[c]]}
    /\ c_pc' = [c_pc EXCEPT ![c] = "done"]
    /\ UNCHANGED <<ongoing_requests, c_key, c_fut, c_inv, c_arrival>>

\* the task of the originating call is cancelled while func runs:
\* CancelledError is no Exception, so the `except` is passed by and the future
\* is left pending; finally: create_task(cleanup())
DedupCancel(c) ==
    /\ c_pc[c] = "running"
    /\ c_out' = [c_out EXCEPT ![c] = [kind |-> "cancelled", inv |-> c_inv[c]]]
    /\ invocations' = [invocations EXCEPT ![c_inv[c]].kind = "cancelled"]
    /\ cleanups' = cleanups \cup {[key |-> c_key[c], fut |-> c_fut[c]]}
    /\ c_pc' = [c_pc EXCEPT ![c] = "cancelled"]
    /\ UNCHANGED <<ongoing_requests, futures, c_key, c_fut, c_inv, c_arrival>>

\* a caller suspended on the shared future resumes with its outcome
DedupWake(c) ==
    /\ c_pc[c] = "awaiting"
    /\ futures[c_fut[c]].kind # "none"
    /\ c_out' = [c_out EXCEPT ![c] = futures[c_fut[c]]]
    /\ c_pc' = [c_pc EXCEPT ![c] = "done"]
    /\ UNCHANGED <<ongoing_requests, futures, cleanups, invocations, c_key,
                   c_fut, c_inv, c_arrival>>

\* cleanup(): after the sleep, `ongoing_requests.pop(key, None)`
DedupCleanup(t) ==
    /\ t \in cleanups
    /\ ongoing_requests' = DictPop(ongoing_requests, t.key)
    /\ cleanups' = cleanups \ {t}
    /\ UNCHANGED <<futures, invocations, c_pc, c_key, c_fut, c_inv, c_out,
                   c_arrival>>

DedupStep ==
    \/ \E c \in Callers, key \in DedupKeys : DedupJoin(c, key)
    \/ \E c \in Callers, key \in DedupKeys : DedupStart(c, key)
    \/ \E c \in Callers, kind \in {"result", "exception"} : DedupFinish(c, kind)
    \/ \E c \in Callers : DedupCancel(c)
    \/ \E c \in Callers : DedupWake(c)
    \/ \E t \in cleanups : DedupCleanup(t)

\* ------------------------------------------------------- the TTL cache
ResourceIds == {"a", "b"}
NoStamp == [iso |-> -1]
NoDoc == [resource_type |-> "none", resource_id |-> "none", data |-> <<>>,
          cached_at |-> NoStamp]

\* datetime.isoformat() and datetime.fromisoformat(): the stored value is a
\* string, not a datetime
IsoFormat(t) == [iso |-> t]
FromIsoFormat(str) == str.iso

Matching(coll, rtype, rid) ==
    {d \in coll : d.resource_type = rtype /\ d.resource_id = rid}

UpdateOneUpsert_Insert(coll, rtype, rid, data, t) ==
    coll \cup {[resource_type |-> rtype, resource_id |-> rid, data |-> data,
                cached_at |-> IsoFormat(t)]}

UpdateOneUpsert_KeepStamp(coll, rtype, rid, data, t) ==
    LET old == Matching(coll, rtype, rid)
        stamp == IF old = {} THEN IsoFormat(t)
                 ELSE (CHOOSE d \in old : TRUE).cached_at
    IN (coll \ old) \cup {[resource_type |-> rtype, resource_id |-> rid,
                           data |-> data, cached_at |-> stamp]}

\* db.cache.update_one({type, id}, {'$set': cache_doc}, upsert=True) with
\* cache_doc built by cache_resource at time t
UpdateOneUpsert(coll, rtype, rid, data, t) ==
    LET doc == [resource_type |-> rtype, resource_id |-> rid, data |-> data,
                cached_at |-> IsoFormat(t)]
        old == Matching(coll, rtype, rid)
    IN IF old = {} THEN coll \cup {doc}
       ELSE LET first == CHOOSE d \in old : TRUE
            IN (coll \ {first}) \cup {doc}

\* db.cache.find_one({type, id}): a matching document, or None
FindOne(coll, rtype, rid) ==
    IF Matching(coll, rtype, rid) = {} THEN NoDoc
    ELSE CHOOSE d \in Matching(coll, rtype, rid) : TRUE

DeleteOne_Keep(coll, rtype, rid) == coll

\* db.cache.delete_one({type, id})
DeleteOne(coll, rtype, rid) ==
    IF Matching(coll, rtype, rid) = {} THEN coll
    ELSE coll \ {CHOOSE d \in Matching(coll, rtype, rid) : TRUE}

IsExpired_AtTTL(doc, t) == t - FromIsoFormat(doc.cached_at) >= CACHE_TTL_HOURS

\* `cache_age > max_age`
IsExpired(doc, t) == t - FromIsoFormat(doc.cached_at) > CACHE_TTL_HOURS

\* ------------------------------------------- fetch-with-cache handlers
Readers == {1, 2}
SHEET_MAX_RETRIES == 3
PAGE_MAX_RETRIES == 3
BASE_DELAY == 1
MAX_DELAY == 30
BACKOFF_FACTOR == 2
SheetPayloads == {<<>>, <<"row">>}
DrivePieces == {"file"}
FetchHandlers == {"get_sheet_data", "get_drive_folder"}
Handlers == FetchHandlers \cup {"get_cached_sheet_data"}

ResourceType(handler) ==
    IF handler = "get_drive_folder" THEN "drive_folder" ELSE "sheet"

\* the key built by deduplicate_requests for the fetch of a handler
FetchKey(handler, id) ==
    [func |-> IF handler = "get_drive_folder" THEN "fetch_drive_folder"
              ELSE "fetch_sheet_data",
     args |-> id]

Keys == {"sheet", "drive_folder"} \X ResourceIds

NoResp == [handler |-> "none", id |-> "none", status |-> 0,
           data |-> <<>>, cached |-> FALSE, cached_at |-> NoStamp, log |-> {}]
NoPut == [data |-> <<>>, at |-> -1, stored |-> FALSE]
Pending == [kind |-> "none", inv |-> 0, data |-> <<>>, response |-> NoResponse]

IdleReq == [pc |-> "idle", handler |-> "none", id |-> "a", attempt |-> 0,
            delay |-> 0, page |-> 0, files |-> <<>>, fut |-> 0, status |-> 0,
            data |-> <<>>]

ReadInit ==
    /\ now = 0
    /\ \E ids \in SUBSET {"a"} :
          cache = {[resource_type |-> "sheet", resource_id |-> i,
                    data |-> <<"old">>, cached_at |-> IsoFormat(0)] : i \in ids}
    /\ req = [r \in Readers |-> IdleReq]
    /\ served = 0
    /\ last_resp = NoResp
    /\ last_call = [k \in Keys |-> NoPut]
    /\ last_stored = [k \in Keys |->
          IF Matching(cache, k[1], k[2]) = {} THEN NoPut
          ELSE [data |-> <<"old">>, at |-> 0, stored |-> TRUE]]

ReadOff ==
    /\ now = 0
    /\ cache = {}
    /\ req = [r \in Readers |-> IdleReq]
    /\ served = 0
    /\ last_resp = NoResp
    /\ last_call = [k \in Keys |-> NoPut]
    /\ last_stored = [k \in Keys |-> NoPut]

\* the response of handler q
Response(q, status, data, cached, cached_at, log) ==
    [handler |-> q.handler, id |-> q.id, status |-> status,
     data |-> data, cached |-> cached, cached_at |-> cached_at, log |-> log]

\* a future nobody refers to any more is reclaimed
Referenced(table, reqs) ==
    {table[k] : k \in DOMAIN table} \cup {reqs[r].fut : r \in Readers}

Reclaim(futs, table, reqs) ==
    [f \in DOMAIN futs \cap Referenced(table, reqs) |-> futs[f]]

\* the handler's try-branch goes on with `await cache_resource(...)`
AfterFetchOk(q, f, data) ==
    [q EXCEPT !.pc = "cache_write", !.fut = 0, !.data = data]

\* the handler's except-branch goes on with `await get_cached_resource(...)`
AfterFetchFailed(q, f) == [q EXCEPT !.pc = "cache_find", !.fut = 0]

\* retry_with_backoff around fetch_sheet_data sees exception e
AfterSheetRaised(q, f, e) ==
    IF RetryDecision(e, q.attempt, SHEET_MAX_RETRIES) = "retry"
    THEN [q EXCEPT !.pc = "sleep", !.fut = 0]
    ELSE AfterFetchFailed(q, f)

\* fetch_sheet_data's `raise HTTPException(status_code=500, ...)`: an
\* HTTPException has no attribute `response`
HTTPException == [kind |-> "exception", inv |-> 0, data |-> <<>>,
                  response |-> NoResponse]

\* one pass through the deduplicate_requests wrapper, for request record q
EnterDedup(r, q) ==
    LET key == FetchKey(q.handler, q.id) IN
    IF ShouldJoin(key, ongoing_requests, futures)
    THEN LET f == ongoing_requests[key]
             fu == futures[f] IN
         /\ req' = [req EXCEPT ![r] =
               IF fu.kind = "none" THEN [q EXCEPT !.pc = "await_fut", !.fut = f]
               ELSE IF fu.kind = "result" THEN AfterFetchOk(q, f, fu.data)
               ELSE IF q.handler = "get_sheet_data" THEN AfterSheetRaised(q, f, fu)
               ELSE AfterFetchFailed(q, f)]
         /\ UNCHANGED <<ongoing_requests, futures>>
    ELSE /\ futures' = DictSet(futures, NewId(futures), Pending)
         /\ ongoing_requests' = DictSet(ongoing_requests, key, NewId(futures))
         \* the producer runs up to its HTTP GET; for fetch_drive_folder that
         \* is the first call of fetch_drive_folder_page
         /\ req' = [req EXCEPT ![r] =
               [q EXCEPT !.pc = "http", !.fut = NewId(futures), !.page = 1,
                         !.files = <<>>,
                         !.attempt = IF q.handler = "get_drive_folder" THEN 0
                                     ELSE q.attempt,
                         !.delay = IF q.handler = "get_drive_folder"
                                   THEN BASE_DELAY ELSE q.delay]]

\* a request arrives: the handler runs up to its first suspension
ReadStart(r, handler, id) ==
    /\ req[r].pc = "idle"
    /\ served < MaxRequests
    /\ served' = served + 1
    /\ LET q == [IdleReq EXCEPT !.handler = handler, !.id = id,
                                !.delay = BASE_DELAY] IN
       IF handler \in FetchHandlers
       THEN EnterDedup(r, q)
       ELSE /\ req' = [req EXCEPT ![r] = [q EXCEPT !.pc = "cache_find"]]
            /\ UNCHANGED <<ongoing_requests, futures>>
    /\ UNCHANGED <<cleanups, invocations, now, cache, last_resp, last_call,
                   last_stored>>

\* the producer ends: set_result / set_exception and create_task(cleanup())
Resolve(f, key, outcome) ==
    /\ futures' = [futures EXCEPT ![f] = outcome]
    /\ cleanups' = cleanups \cup {[key |-> key, fut |-> f]}

\* fetch_sheet_data: the upstream answers 200 and the rows are parsed
HttpSheetOk(r, payload) ==
    LET q == [req[r] EXCEPT !.status = 200]
        key == FetchKey(q.handler, q.id) IN
    /\ q.pc = "http"
    /\ q.handler = "get_sheet_data"
    /\ Resolve(q.fut, key, [Pending EXCEPT !.kind = "result", !.data = payload])
    /\ req' = [req EXCEPT ![r] = AfterFetchOk(q, q.fut, payload)]
    /\ UNCHANGED <<ongoing_requests, invocations, served, now, cache, last_resp, last_call, last_stored>>

\* fetch_drive_folder_page: the upstream answers 200 with one page of files
\* and, when more is TRUE, a nextPageToken
HttpPageOk(r, piece, more) ==
    LET q == [req[r] EXCEPT !.status = 200]
        key == FetchKey(q.handler, q.id)
        files == Append(q.files, piece) IN
    /\ q.pc = "http"
    /\ q.handler = "get_drive_folder"
    /\ more => q.page < MaxPages
    /\ IF more
       THEN \* the loop calls fetch_drive_folder_page again
            /\ req' = [req EXCEPT ![r] =
                  [q EXCEPT !.files = files, !.page = q.page + 1,
                            !.attempt = 0, !.delay = BASE_DELAY]]
            /\ UNCHANGED <<futures, cleanups>>
       ELSE /\ Resolve(q.fut, key, [Pending EXCEPT !.kind = "result", !.data = files])
            /\ req' = [req EXCEPT ![r] = AfterFetchOk(q, q.fut, files)]
    /\ UNCHANGED <<ongoing_requests, invocations, served, now, cache, last_resp, last_call, last_stored>>

\* the upstream call fails: status in resp, or NoResponse for a network error
HttpFail(r, resp) ==
    LET q == [req[r] EXCEPT !.status = resp]
        key == FetchKey(q.handler, q.id) IN
    /\ q.pc = "http"
    /\ IF q.handler = "get_sheet_data"
       THEN \* fetch_sheet_data catches it and raises HTTPException
            /\ Resolve(q.fut, key, HTTPException)
            /\ req' = [req EXCEPT ![r] = AfterSheetRaised(q, q.fut, HTTPException)]
       ELSE \* fetch_drive_folder_page re-raises the httpx error
            IF RetryDecision([response |-> resp], q.attempt, PAGE_MAX_RETRIES) = "retry"
            THEN /\ req' = [req EXCEPT ![r] = [q EXCEPT !.pc = "sleep"]]
                 /\ UNCHANGED <<futures, cleanups>>
            ELSE \* fetch_drive_folder catches it and raises HTTPException
                 /\ Resolve(q.fut, key, HTTPException)
                 /\ req' = [req EXCEPT ![r] = AfterFetchFailed(q, q.fut)]
    /\ UNCHANGED <<ongoing_requests, invocations, served, now, cache, last_resp, last_call, last_stored>>

\* asyncio.sleep(delay) of a retry wrapper ends: next attempt
ReadSleep(r) ==
    LET q == [req[r] EXCEPT !.attempt = @ + 1,
                            !.delay = NextDelay(@, BACKOFF_FACTOR, MAX_DELAY)] IN
    /\ q.pc = "sleep"
    /\ IF q.handler = "get_sheet_data"
       THEN EnterDedup(r, q)
       ELSE /\ req' = [req EXCEPT ![r] = [q EXCEPT !.pc = "http"]]
            /\ UNCHANGED <<ongoing_requests, futures>>
    /\ UNCHANGED <<cleanups, invocations, served, now, cache, last_resp, last_call, last_stored>>

\* a request suspended on a shared future resumes
ReadWake(r) ==
    LET q == req[r]
        fu == futures[q.fut] IN
    /\ q.pc = "await_fut"
    /\ fu.kind # "none"
    /\ req' = [req EXCEPT ![r] =
          IF fu.kind = "result" THEN AfterFetchOk(q, q.fut, fu.data)
          ELSE IF q.handler = "get_sheet_data" THEN AfterSheetRaised(q, q.fut, fu)
          ELSE AfterFetchFailed(q, q.fut)]
    /\ futures' = Reclaim(futures, ongoing_requests, req')
    /\ UNCHANGED <<ongoing_requests, cleanups, invocations, served, now,
                   cache, last_resp, last_call, last_stored>>

\* cache_resource: update_one ends (ok) or raises (logged and swallowed);
\* the handler then returns the fresh data
CacheWrite(r, ok) ==
    LET q == req[r]
        rtype == ResourceType(q.handler)
        k == <<rtype, q.id>> IN
    /\ q.pc = "cache_write"
    /\ cache' = IF ok THEN UpdateOneUpsert(cache, rtype, q.id, q.data, now)
                ELSE cache
    /\ req' = [req EXCEPT ![r] = IdleReq]
    /\ last_resp' = Response(q, 200, q.data, FALSE, NoStamp,
                             IF ok THEN {} ELSE {"Error caching resource"})
    /\ last_call' = [last_call EXCEPT ![k] = [data |-> q.data, at |-> now, stored |-> ok]]
    /\ last_stored' = IF ok
          THEN [last_stored EXCEPT ![k] = [data |-> q.data, at |-> now, stored |-> TRUE]]
          ELSE last_stored
    /\ UNCHANGED <<ongoing_requests, futures, cleanups, invocations, served, now>>

\* what the handler answers when get_cached_resource returned None
NoCacheResp(q, log) ==
    Response(q, IF q.handler \in FetchHandlers THEN 500 ELSE 404, <<>>, FALSE,
             NoStamp, log)

\* what the handler answers from the cached document
CachedResp(q, doc) ==
    Response(q, 200, doc.data, q.handler \in FetchHandlers, doc.cached_at, {})

\* get_cached_resource: find_one ends (ok) or raises
CacheFind(r, ok) ==
    LET q == req[r]
        rtype == ResourceType(q.handler)
        doc == FindOne(cache, rtype, q.id) IN
    /\ q.pc = "cache_find"
    /\ IF ok /\ doc # NoDoc /\ IsExpired(doc, now)
       THEN \* `await db.cache.delete_one(...)`
            /\ req' = [req EXCEPT ![r] = [q EXCEPT !.pc = "cache_delete"]]
            /\ last_resp' = last_resp
       ELSE /\ req' = [req EXCEPT ![r] = IdleReq]
            /\ last_resp' =
                  IF ~ok THEN NoCacheResp(q, {"Error getting cached resource"})
                  ELSE IF doc = NoDoc THEN NoCacheResp(q, {})
                  ELSE CachedResp(q, doc)
    /\ UNCHANGED <<ongoing_requests, futures, cleanups, invocations, served, now,
                   cache, last_call, last_stored>>

\* get_cached_resource: delete_one of the expired entry ends (ok) or raises;
\* either way the function returns None
CacheDelete(r, ok) ==
    LET q == req[r]
        rtype == ResourceType(q.handler)
        k == <<rtype, q.id>> IN
    /\ q.pc = "cache_delete"
    /\ cache' = IF ok THEN DeleteOne(cache, rtype, q.id) ELSE cache
    /\ req' = [req EXCEPT ![r] = IdleReq]
    /\ last_resp' = NoCacheResp(q,
          IF ok THEN {} ELSE {"Error getting cached resource"})
    /\ last_call' = IF ok THEN [last_call EXCEPT ![k] = NoPut] ELSE last_call
    /\ last_stored' = IF ok THEN [last_stored EXCEPT ![k] = NoPut] ELSE last_stored
    /\ UNCHANGED <<ongoing_requests, futures, cleanups, invocations, served, now>>

\* time passes
Tick ==
    /\ now < MaxTime
    /\ now' = now + 1
    /\ UNCHANGED <<ongoing_requests, futures, cleanups, invocations, cache, req,
                   served, last_resp, last_call, last_stored>>

ReadCleanup(t) ==
    /\ t \in cleanups
    /\ ongoing_requests' = DictPop(ongoing_requests, t.key)
    /\ cleanups' = cleanups \ {t}
    /\ futures' = Reclaim(futures, ongoing_requests', req)
    /\ UNCHANGED <<invocations, now, cache, req, served, last_resp, last_call,
                   last_stored>>

ReadStep ==
    \/ \E r \in Readers, h \in Handlers, id \in ResourceIds : ReadStart(r, h, id)
    \/ \E r \in Readers, p \in SheetPayloads : HttpSheetOk(r, p)
    \/ \E r \in Readers, p \in DrivePieces, more \in BOOLEAN : HttpPageOk(r, p, more)
    \/ \E r \in Readers, resp \in {503, 404, NoResponse} : HttpFail(r, resp)
    \/ \E r \in Readers : ReadSleep(r)
    \/ \E r \in Readers : ReadWake(r)
    \/ \E r \in Readers, ok \in BOOLEAN : CacheWrite(r, ok)
    \/ \E r \in Readers, ok \in BOOLEAN : CacheFind(r, ok)
    \/ \E r \in Readers, ok \in BOOLEAN : CacheDelete(r, ok)
    \/ \E t \in cleanups : ReadCleanup(t)
    \/ Tick

\* ------------------------------------- collaborate_websocket, broadcast
Conns == 1..NConns
SHEET_TYPES == {"supply", "event", "contact"}
Sheets == {"supply", "event"}             \* the channels that get subscribers
Users == {"u1", "u2"}
\* the user_id path parameter of each connection: connections 1 and 3 belong
\* to the same user
UserOf(c) == IF c = 2 THEN "u2" ELSE "u1"
\* the sheet_type path parameter a connection may come with
SheetChoices(c) == IF c = NConns THEN {"supply", "event", "other"} ELSE {"supply"}
InboundKinds == {"operation", "cursor_update", "unknown", "no_type", "bad_json"}

NoPresence == "absent"
NoMsg == [type |-> "none", about |-> 0, n |-> 0]
Message(type, about, n) == [type |-> type, about |-> about, n |-> n]
NoInbound == [to |-> 0, kind |-> "none", n |-> 0]

\* the locals of one run of collaborate_websocket, and of the
\* broadcast_to_sheet or send loop it is in (start, sent, failed and changed
\* are history: the channel when the pass began, the deliveries made, the
\* sends that failed, and the members added or removed meanwhile; error is
\* the IndexError of a pop, once one was raised)
IdleWs ==
    [pc |-> "idle", sheet_type |-> "none", msg |-> NoMsg, ret |-> "none",
     idx |-> 0, target |-> 0, disconnected |-> <<>>, users |-> {},
     error |-> "none", start |-> <<>>, sent |-> <<>>, failed |-> {},
     changed |-> {}]

Range(s) == {s[i] : i \in 1..Len(s)}
RemoveAt(s, i) == [j \in 1..(Len(s) - 1) |-> IF j < i THEN s[j] ELSE s[j + 1]]
\* list.remove(x): removes the first occurrence
ListRemove(s, x) ==
    IF x \notin Range(s) THEN s
    ELSE RemoveAt(s, CHOOSE i \in 1..Len(s) : s[i] = x /\ \A j \in 1..(i - 1) : s[j] # x)
PresentUsers(pres) == {u \in Users : pres[u] # NoPresence}

CollabInit ==
    /\ active_connections = [s \in Sheets |-> <<>>]
    /\ user_presence = [s \in Sheets |-> [u \in Users |-> NoPresence]]
    /\ operation_history = [s \in Sheets |-> <<>>]
    /\ collaborative_operations = {}
    /\ ws = [c \in Conns |-> IdleWs]
    /\ closed = {}
    /\ events = 0
    /\ last_in = NoInbound

RECURSIVE PopAll_Forward(_, _, _, _)
RECURSIVE PopAll(_, _, _, _)
PopAll_Forward(conns, disconnected, k, removed) ==
    IF k = 0 THEN [conns |-> conns, removed |-> removed, raised |-> FALSE]
    ELSE LET i == disconnected[Len(disconnected) - k + 1] IN
         IF i + 1 > Len(conns)
         THEN [conns |-> conns, removed |-> removed, raised |-> TRUE]
         ELSE PopAll_Forward(RemoveAt(conns, i + 1), disconnected, k - 1,
                             removed \cup {conns[i + 1]})

\* `for i in reversed(disconnected): active_connections[sheet_type].pop(i)`:
\* the list after the pops, the connections popped, and whether a pop raised
\* IndexError (k: how many entries of `disconnected` are still to pop)
PopAll(conns, disconnected, k, removed) ==
    IF k = 0 THEN [conns |-> conns, removed |-> removed, raised |-> FALSE]
    ELSE LET i == disconnected[k] IN
         IF i + 1 > Len(conns)
         THEN [conns |-> conns, removed |-> removed, raised |-> TRUE]
         ELSE PopAll(RemoveAt(conns, i + 1), disconnected, k - 1,
                     removed \cup {conns[i + 1]})

\* the part of the state one handler step works on: its channel's subscriber
\* list and presence map, its own locals, and the record of the last pass
World(c) ==
    [conns |-> active_connections[ws[c].sheet_type],
     pres |-> user_presence[ws[c].sheet_type],
     h |-> ws[c]]

\* `for i, websocket in enumerate(active_connections[sheet_type])`: the list
\* iterator reads the live list at its own position; when it is exhausted the
\* coroutine goes on to the pops without suspending
NextTarget(c, w) ==
    IF w.h.idx < Len(w.conns)
    THEN [w EXCEPT !.h.target = w.conns[w.h.idx + 1], !.h.idx = @ + 1,
                   !.h.pc = "bcast_send"]
    ELSE [w EXCEPT !.h.target = 0, !.h.pc = "pops"]

\* broadcast_to_sheet up to its first `await websocket.send_json(message)`
BeginBroadcast(c, w, msg, ret) ==
    NextTarget(c, [w EXCEPT !.h.msg = msg, !.h.ret = ret, !.h.idx = 0,
                            !.h.target = 0, !.h.disconnected = <<>>,
                            !.h.start = w.conns, !.h.sent = <<>>,
                            !.h.failed = {}, !.h.changed = {}])

\* the `finally:` block of collaborate_websocket up to the first send of its
\* broadcast
Finally(c, w) ==
    BeginBroadcast(c, [w EXCEPT !.pres[UserOf(c)] = NoPresence,
                                !.conns = ListRemove(w.conns, c)],
                   Message("user_left", c, 0), "done")

\* an exception leaves the `try:` body of collaborate_websocket
Raise(c, w) == Finally(c, w)

\* the end of broadcast_to_sheet: the pops, then back in the caller (in the
\* `while` loop, or at the end of the handler, or, when a pop raised, in the
\* `finally:` block)
Finish(c, w) ==
    LET p == PopAll(w.conns, w.h.disconnected, Len(w.h.disconnected), {})
        h1 == [w.h EXCEPT !.msg = NoMsg, !.ret = "none", !.idx = 0, !.target = 0,
                          !.disconnected = <<>>, !.start = <<>>, !.sent = <<>>,
                          !.failed = {}, !.changed = {},
                          !.error = IF p.raised THEN "IndexError" ELSE @]
        w1 == [conns |-> p.conns, pres |-> w.pres, h |-> h1]
    IN IF w.h.ret = "done" THEN [w1 EXCEPT !.h.pc = "done"]
       ELSE IF p.raised THEN Finally(c, w1)
       ELSE [w1 EXCEPT !.h.pc = "receive"]

NextOpTarget_ToAll(c, w) ==
    IF w.h.idx < Len(w.conns)
    THEN [w EXCEPT !.h.target = w.conns[w.h.idx + 1], !.h.idx = @ + 1,
                   !.h.pc = "op_send"]
    ELSE [w EXCEPT !.h.pc = "receive", !.h.msg = NoMsg, !.h.idx = 0,
                   !.h.target = 0, !.h.start = <<>>, !.h.sent = <<>>,
                   !.h.changed = {}]

\* `for ws in active_connections[sheet_type]: if ws != websocket: await ...`
NextOpTarget(c, w) ==
    LET i == IF w.h.idx < Len(w.conns) /\ w.conns[w.h.idx + 1] = c
             THEN w.h.idx + 1 ELSE w.h.idx IN
    IF i < Len(w.conns)
    THEN [w EXCEPT !.h.target = w.conns[i + 1], !.h.idx = i + 1,
                   !.h.pc = "op_send"]
    ELSE [w EXCEPT !.h.pc = "receive", !.h.msg = NoMsg, !.h.idx = 0,
                   !.h.target = 0, !.h.start = <<>>, !.h.sent = <<>>,
                   !.h.changed = {}]

\* the step of handler c on channel s leaves the world w; the sockets in
\* `gone` were found closed by it, and the socket of a handler that has ended
\* is closed
Commit(c, s, w, gone) ==
    LET before == Range(active_connections[s])
        after == Range(w.conns)
        delta == (before \ after) \cup (after \ before) IN
    /\ active_connections' = [active_connections EXCEPT ![s] = w.conns]
    /\ user_presence' = [user_presence EXCEPT ![s] = w.pres]
    /\ ws' = [x \in Conns |->
                IF x = c THEN w.h
                ELSE IF ws[x].pc \in {"bcast_send", "op_send"} /\ ws[x].sheet_type = s
                     THEN [ws[x] EXCEPT !.changed = @ \cup delta]
                     ELSE ws[x]]
    /\ closed' = closed \cup gone \cup (IF w.h.pc = "done" THEN {c} ELSE {})

\* no coroutine is between the last send of a broadcast and its pops: that
\* stretch has no await, so nothing else runs until BcastPops has been taken
Suspended == \A x \in Conns : ws[x].pc # "pops"

Joining(h) ==
    \/ h.pc \in {"idle", "presence_send"}
    \/ h.pc \in {"bcast_send", "pops"} /\ h.msg.type = "user_joined"

\* lines 948-974: the connection is accepted and registered, and the handler
\* is suspended in the send of its presence_update (an unsupported
\* sheet_type is closed with code 1003 instead)
WsConnect(c, sheet) ==
    /\ Suspended
    /\ ws[c].pc = "idle"
    /\ events < MaxEvents
    /\ events' = events + 1
    \* connections are numbered in order of arrival, and one arrives when the
    \* joins of the connections before it have ended
    /\ \A x \in 1..(c - 1) : ~Joining(ws[x])
    /\ IF sheet \notin SHEET_TYPES
       THEN /\ ws' = [ws EXCEPT ![c] = [IdleWs EXCEPT !.pc = "done"]]
            /\ closed' = closed \cup {c}
            /\ UNCHANGED <<active_connections, user_presence>>
       ELSE LET pres == [user_presence[sheet] EXCEPT ![UserOf(c)] = "no_cursor"] IN
            Commit(c, sheet,
                   [conns |-> Append(active_connections[sheet], c),
                    pres |-> pres,
                    h |-> [IdleWs EXCEPT !.pc = "presence_send",
                                         !.sheet_type = sheet,
                                         !.users = PresentUsers(pres)]],
                   {})
    /\ UNCHANGED <<operation_history, collaborative_operations, last_in>>

\* a send to connection t ends: with an exception if t's socket is closed
\* (its peer has gone, or its handler has ended)
SendOutcome(t, ok) == t \in closed => ~ok
Gone(t, ok) == IF ok THEN {} ELSE {t}

\* lines 971-980: the presence_update send ends; user_joined is broadcast
PresenceSent(c, ok) ==
    LET w == [World(c) EXCEPT !.h.users = {}] IN
    /\ Suspended
    /\ ws[c].pc = "presence_send"
    /\ SendOutcome(c, ok)
    /\ Commit(c, ws[c].sheet_type,
              IF ok THEN BeginBroadcast(c, w, Message("user_joined", c, 0), "receive")
              ELSE Raise(c, w),
              Gone(c, ok))
    /\ UNCHANGED <<operation_history, collaborative_operations, events, last_in>>

\* lines 816-825: one send of broadcast_to_sheet ends, with success or with
\* an exception; the loop goes on to its next send or to the pops
BcastSent(c, ok) ==
    LET t == ws[c].target
        w == World(c)
        w1 == IF ok THEN [w EXCEPT !.h.sent = Append(@, t)]
              ELSE [w EXCEPT !.h.failed = @ \cup {t},
                             !.h.disconnected = Append(@, w.h.idx - 1)] IN
    /\ Suspended
    /\ ws[c].pc = "bcast_send"
    /\ SendOutcome(t, ok)
    /\ Commit(c, ws[c].sheet_type, NextTarget(c, w1), Gone(t, ok))
    /\ UNCHANGED <<operation_history, collaborative_operations, events, last_in>>

\* lines 823-825, and what follows the broadcast in its caller, up to the
\* next await. This is the tail of the step that ended the last send: while a
\* handler is at "pops" every other action is disabled (Suspended), so the
\* pops always come next and nothing is interleaved before them
BcastPops(c) ==
    /\ ws[c].pc = "pops"
    /\ Commit(c, ws[c].sheet_type, Finish(c, World(c)), {})
    /\ UNCHANGED <<operation_history, collaborative_operations, events, last_in>>

\* lines 984-1018: receive_json returns a message (or raises JSONDecodeError)
WsReceive(c, kind) ==
    LET w == World(c)
        s == ws[c].sheet_type IN
    /\ Suspended
    /\ ws[c].pc = "receive"
    /\ c \notin closed
    /\ events < MaxEvents
    /\ events' = events + 1
    /\ last_in' = [to |-> c, kind |-> kind, n |-> events + 1]
    /\ operation_history' =
          IF kind = "operation"
          THEN [operation_history EXCEPT ![s] = Append(@, [by |-> c, n |-> events + 1])]
          ELSE operation_history
    /\ Commit(c, s,
              CASE kind = "operation" ->
                     [w EXCEPT !.h.pc = "op_save",
                               !.h.msg = Message("operation", c, events + 1)]
                [] kind = "cursor_update" ->
                     IF w.pres[UserOf(c)] # NoPresence
                     THEN BeginBroadcast(c, [w EXCEPT !.pres[UserOf(c)] = "p"],
                                         Message("cursor_update", c, 0), "receive")
                     ELSE w
                [] kind = "unknown" -> w
                [] kind = "no_type" -> Raise(c, w)
                [] kind = "bad_json" -> [w EXCEPT !.h.pc = "error_send"],
              {})
    /\ UNCHANGED collaborative_operations

\* line 984: the peer has gone and receive_json raises WebSocketDisconnect
WsDisconnect(c) ==
    /\ Suspended
    /\ ws[c].pc = "receive"
    /\ Commit(c, ws[c].sheet_type, Raise(c, World(c)), {c})
    /\ UNCHANGED <<operation_history, collaborative_operations, events, last_in>>

\* lines 994-1002: save_operation_to_history ends (insert_one done, or its
\* error logged and swallowed); the send loop starts
OpSaved(c, ok) ==
    LET w == World(c) IN
    /\ Suspended
    /\ ws[c].pc = "op_save"
    /\ collaborative_operations' =
          IF ok THEN collaborative_operations \cup {[by |-> c, n |-> ws[c].msg.n]}
          ELSE collaborative_operations
    /\ Commit(c, ws[c].sheet_type,
              NextOpTarget(c, [w EXCEPT !.h.idx = 0, !.h.start = w.conns,
                                        !.h.sent = <<>>, !.h.changed = {}]),
              {})
    /\ UNCHANGED <<operation_history, events, last_in>>

\* lines 997-1002: one send of the operation ends; an exception of the send
\* leaves the loop and the `try:` body
OpSent(c, ok) ==
    LET t == ws[c].target
        w == World(c) IN
    /\ Suspended
    /\ ws[c].pc = "op_send"
    /\ SendOutcome(t, ok)
    /\ Commit(c, ws[c].sheet_type,
              IF ok THEN NextOpTarget(c, [w EXCEPT !.h.sent = Append(@, t)])
              ELSE Raise(c, w),
              Gone(t, ok))
    /\ UNCHANGED <<operation_history, collaborative_operations, events, last_in>>

\* line 1018: the 'Invalid JSON' reply has been sent, or its send raises
ErrorSent(c, ok) ==
    LET w == World(c) IN
    /\ Suspended
    /\ ws[c].pc = "error_send"
    /\ SendOutcome(c, ok)
    /\ Commit(c, ws[c].sheet_type,
              IF ok THEN [w EXCEPT !.h.pc = "receive"]
              ELSE Raise(c, w),
              Gone(c, ok))
    /\ UNCHANGED <<operation_history, collaborative_operations, events, last_in>>

CollabStep ==
    \/ \E c \in Conns : \E sheet \in SheetChoices(c) : WsConnect(c, sheet)
    \/ \E c \in Conns, ok \in BOOLEAN : PresenceSent(c, ok)
    \/ \E c \in Conns, ok \in BOOLEAN : BcastSent(c, ok)
    \/ \E c \in Conns : BcastPops(c)
    \/ \E c \in Conns, kind \in InboundKinds : WsReceive(c, kind)
    \/ \E c \in Conns : WsDisconnect(c)
    \/ \E c \in Conns, ok \in BOOLEAN : OpSaved(c, ok)
    \/ \E c \in Conns, ok \in BOOLEAN : OpSent(c, ok)
    \/ \E c \in Conns, ok \in BOOLEAN : ErrorSent(c, ok)

\* ------------------------------------------- float arithmetic of progress
\* `int((completed + 1) / total_ops * 100)` is computed in Python floats:
\* IEEE 754 binary64, round-to-nearest, ties-to-even. A float is modelled by
\* its significand m, an integer of MANT_DIG bits, and its exponent e: its
\* value is m * 2^e. An integer of that size is kept as a sequence of limbs
\* of LIMB_BITS bits, the most significant limb first
MANT_DIG == 53
LIMB_BITS == 18
RECURSIVE Exp2(_)
Exp2(n) == IF n = 0 THEN 1 ELSE 2 * Exp2(n - 1)
LIMB == Exp2(LIMB_BITS)

RECURSIVE DivSmall(_, _, _)
\* long division of the limbs x, after the remainder r, by a small int d
DivSmall(x, d, r) ==
    IF x = <<>> THEN [q |-> <<>>, r |-> r]
    ELSE LET v == r * LIMB + Head(x)
             rest == DivSmall(Tail(x), d, v % d) IN
         [q |-> <<v \div d>> \o rest.q, r |-> rest.r]

RECURSIVE MulSmall(_, _, _)
\* the limbs of x * k + carry, for a small int k
MulSmall(x, k, carry) ==
    IF x = <<>> THEN IF carry = 0 THEN <<>> ELSE <<carry>>
    ELSE LET v == x[Len(x)] * k + carry IN
         Append(MulSmall(SubSeq(x, 1, Len(x) - 1), k, v \div LIMB), v % LIMB)

RECURSIVE BitLength(_)
BitLength(x) ==
    IF x = <<>> THEN 0
    ELSE IF Head(x) = 0 THEN BitLength(Tail(x))
    ELSE (CHOOSE b \in 1..(2 * LIMB_BITS) : Exp2(b - 1) <= Head(x) /\ Head(x) < Exp2(b))
          + LIMB_BITS * (Len(x) - 1)

RECURSIVE ShiftRight(_, _)
\* floor(x / 2^t)
ShiftRight(x, t) ==
    IF t >= LIMB_BITS THEN ShiftRight(SubSeq(x, 1, Len(x) - 1), t - LIMB_BITS)
    ELSE DivSmall(x, Exp2(t), 0).q

\* x * 2^e, where `sticky` says that x stands for a little more than x,
\* rounded to a float: the low bits beyond MANT_DIG are dropped, to the nearest
\* and, halfway, to the even significand
RoundNearestEven(x, e, sticky) ==
    LET t == BitLength(x) - MANT_DIG
        d == DivSmall(x, Exp2(t), 0)
        half == Exp2(t - 1)
        odd == d.q[Len(d.q)] % 2 = 1
        up == t > 0 /\ (d.r > half \/ (d.r = half /\ (sticky \/ odd)))
        m == IF up THEN MulSmall(d.q, 1, 1) ELSE d.q IN
    IF BitLength(m) > MANT_DIG THEN [m |-> ShiftRight(m, 1), e |-> e + t + 1]
    ELSE [m |-> m, e |-> e + t]

RECURSIVE Normalize(_, _, _)
\* a / d = (a * 2^k) / d * 2^(-k) with 1 <= (a * 2^k) / d < 2, for 0 < a <= d
Normalize(a, d, k) ==
    IF a >= d THEN [a |-> a, k |-> k] ELSE Normalize(2 * a, d, k + 1)

\* the float a / d of two ints 0 < a <= d (true division): the quotient is
\* worked out to MANT_DIG + 1 bits and rounded
FloatDiv(a, d) ==
    LET n == Normalize(a, d, 0)
        t == DivSmall(<<n.a * Exp2(LIMB_BITS - 1), 0, 0>>, d, 0) IN
    RoundNearestEven(t.q, 0 - (n.k + MANT_DIG), t.r # 0)

\* the float f * k for a float f and a small positive int k
FloatMul(f, k) == RoundNearestEven(MulSmall(f.m, k, 0), f.e, FALSE)

\* int(f): truncation toward zero, for a float 0 < f < LIMB
FloatToInt(f) ==
    LET q == ShiftRight(f.m, 0 - f.e) IN
    IF q = <<>> THEN 0 ELSE q[Len(q)]

\* lines 874 and 880: int(completed / total_ops * 100), for every batch size
\* and every count of finished operations the models use
Percentages ==
    [total_ops \in 1..MaxBatch |->
        [completed \in 1..total_ops |->
            FloatToInt(FloatMul(FloatDiv(completed, total_ops), 100))]]

ProgressOf(completed, total_ops) == Percentages[total_ops][completed]

\* ------------------------------------------------ bulk operation pipeline
\* Optional[...] values: None, or the value
None == <<>>
Some(x) == <<x>>

\* the operation_id the uuid4 default gives the one bulk operation of a run
BULK_ID == "b1"
\* sheet_type of a bulk request is any string: "other" is no key of
\* active_connections
BulkSheets == {"supply", "other"}
\* request bodies: `items` are the updates of a BulkUpdateRequest (an update
\* without 'row_index' is malformed), the row_indices of a BulkDeleteRequest,
\* or the rows (lists of column keys) of a BulkImportRequest
BulkRequests ==
    {[endpoint |-> "bulk_update", sheet_type |-> s, items |-> u, update_existing |-> FALSE] :
        s \in BulkSheets,
        u \in {<<>>, <<[row_index |-> 1]>>,
               <<[row_index |-> 1], [row_index |-> 2], [row_index |-> 3]>>}}
    \cup {[endpoint |-> "bulk_update", sheet_type |-> "supply",
           items |-> <<[row_index |-> 1], [column_key |-> "c"]>>, update_existing |-> FALSE]}
    \cup {[endpoint |-> "bulk_delete", sheet_type |-> "supply", items |-> <<1, 3>>,
           update_existing |-> FALSE]}
    \cup {[endpoint |-> "bulk_import", sheet_type |-> "supply", items |-> <<<<"a", "b">>>>,
           update_existing |-> e] : e \in BOOLEAN}

NoBulkOp ==
    [operation_id |-> "none", sheet_type |-> "none", operation_type |-> "none",
     operations |-> <<>>, total_operations |-> 0, status |-> "none", progress |-> 0,
     created_at |-> None, completed_at |-> None, error_message |-> None]
NoEvent == [type |-> "none"]
\* the process_bulk_operation task: where it is suspended, its locals, and
\* the locals of the broadcast_to_sheet it is in (`raising`: it is in the
\* outer `except` and will re-raise)
NoTask ==
    [pc |-> "none", total_ops |-> 0, completed |-> 0, msg |-> NoEvent, idx |-> 0,
     target |-> 0, disconnected |-> <<>>, raising |-> FALSE]
NoBulkResp == [status |-> 0]
NoStatusResp == [status |-> 0]

BulkInit ==
    /\ bulk_op = NoBulkOp
    /\ task = NoTask
    /\ bulk_operations = {}
    /\ bulk_resp = NoBulkResp
    /\ status_resp = NoStatusResp
    /\ bulk_log = <<>>
    /\ status_trail = <<>>

RECURSIVE SortedDesc(_)
\* sorted(request.row_indices, reverse=True)
SortedDesc(s) ==
    IF s = <<>> THEN <<>>
    ELSE LET i == CHOOSE i \in 1..Len(s) : \A j \in 1..Len(s) : s[j] <= s[i] IN
         <<s[i]>> \o SortedDesc(RemoveAt(s, i))

RECURSIVE CellUpdates(_, _)
\* `for i, row_data in enumerate(request.data): for column_key, ... in
\* row_data.items()`: one update per cell, rows numbered from i
CellUpdates(rows, i) ==
    IF rows = <<>> THEN <<>>
    ELSE [c \in 1..Len(Head(rows)) |->
             [operation_type |-> "update", row_index |-> Some(i),
              column_key |-> Some(Head(rows)[c])]]
         \o CellUpdates(Tail(rows), i + 1)

WellFormed(r) ==
    r.endpoint = "bulk_update" =>
        \A i \in 1..Len(r.items) : "row_index" \in DOMAIN r.items[i]

\* the `operations` list each endpoint builds from its request
BuildOperations(r) ==
    CASE r.endpoint = "bulk_update" ->
           [i \in 1..Len(r.items) |->
               [operation_type |-> "update", row_index |-> Some(r.items[i].row_index),
                column_key |-> Some("c")]]
      [] r.endpoint = "bulk_delete" ->
           LET rows == SortedDesc(r.items) IN
           [i \in 1..Len(rows) |->
               [operation_type |-> "delete", row_index |-> Some(rows[i]),
                column_key |-> None]]
      [] r.endpoint = "bulk_import" ->
           IF r.update_existing THEN CellUpdates(r.items, 0)
           ELSE [i \in 1..Len(r.items) |->
                    [operation_type |-> "insert", row_index |-> None,
                     column_key |-> None]]

\* BulkOperation(...): the defaults of the model class
NewBulkOperation(r, operations) ==
    [operation_id |-> BULK_ID, sheet_type |-> r.sheet_type,
     operation_type |-> r.endpoint, operations |-> operations,
     total_operations |-> Len(operations), status |-> "pending", progress |-> 0,
     created_at |-> Some(now), completed_at |-> None, error_message |-> None]

CreateTask_RunInline(b) ==
    [NoTask EXCEPT !.pc = "op_save", !.total_ops = Len(b.operations)]
\* asyncio.create_task(process_bulk_operation(bulk_op)): the task is
\* scheduled and has not run when create_task returns
CreateTask(b) == [NoTask EXCEPT !.pc = "start"]

\* the document save_bulk_operation writes, and the BulkOperation that
\* get_bulk_operation_status makes of it
BulkDoc(b) ==
    [b EXCEPT !.created_at = Some(IsoFormat(b.created_at[1])),
              !.completed_at = IF @ = None THEN None ELSE Some(IsoFormat(@[1]))]
BulkFromDoc(doc) ==
    [doc EXCEPT !.created_at = Some(FromIsoFormat(doc.created_at[1])),
                !.completed_at = IF @ = None THEN None ELSE Some(FromIsoFormat(@[1]))]
UpsertBulk_Keep(coll, doc) == coll
\* update_one({'operation_id': ...}, {'$set': doc}, upsert=True)
UpsertBulk(coll, doc) == {x \in coll : x.operation_id # doc.operation_id} \cup {doc}
\* the response of get_bulk_status for the BulkOperation b
StatusResponse(b) ==
    [status |-> 200, operation_id |-> b.operation_id, bulk_status |-> b.status,
     progress |-> b.progress, total_operations |-> b.total_operations,
     created_at |-> IsoFormat(b.created_at[1]),
     completed_at |-> IF b.completed_at = None THEN None
                      ELSE Some(IsoFormat(b.completed_at[1])),
     error_message |-> b.error_message]

ProgressEvent(b, completed, total_ops) ==
    [type |-> "bulk_operation_progress", bulk_operation_id |-> b.operation_id,
     progress |-> ProgressOf(completed + 1, total_ops),
     current_operation |-> completed + 1, total_operations |-> total_ops]
CompleteEvent(b, total_ops) ==
    [type |-> "bulk_operation_complete", bulk_operation_id |-> b.operation_id,
     total_operations |-> total_ops]

\* what one step of the task works on: the subscriber list of its channel,
\* the BulkOperation object, the task's locals, and the history (bulk_log:
\* the persists, the broadcasts and the save of the record, in the order in
\* which they ended, `ok` telling success from an exception; status_trail:
\* every value assigned to bulk_op.status)
KnownSheet(b) == b.sheet_type \in DOMAIN active_connections
BulkWorld ==
    [conns |-> IF KnownSheet(bulk_op) THEN active_connections[bulk_op.sheet_type]
               ELSE <<>>,
     b |-> bulk_op, t |-> task, log |-> bulk_log, trail |-> status_trail]
Logged(w, ev, i, ok) == [w EXCEPT !.log = Append(@, [ev |-> ev, i |-> i, ok |-> ok])]
SetStatus(w, status) == [w EXCEPT !.b.status = status, !.trail = Append(@, status)]

\* lines 816-825 for the task: the next send of the loop, or, when the live
\* list is exhausted, the pops ("bcast_done", or "bcast_raised" when a pop
\* raises IndexError)
BulkNextTarget(w) ==
    IF w.t.idx < Len(w.conns)
    THEN [w EXCEPT !.t.target = w.conns[w.t.idx + 1], !.t.idx = @ + 1,
                   !.t.pc = "bcast_send"]
    ELSE LET p == PopAll(w.conns, w.t.disconnected, Len(w.t.disconnected), {}) IN
         [w EXCEPT !.conns = p.conns, !.t.idx = 0, !.t.target = 0,
                   !.t.disconnected = <<>>,
                   !.t.pc = IF p.raised THEN "bcast_raised" ELSE "bcast_done"]

\* broadcast_to_sheet(bulk_op.sheet_type, msg) up to its first send:
\* active_connections[sheet_type] raises KeyError for an unknown sheet_type
BulkBroadcast(w, msg) ==
    IF ~KnownSheet(w.b) THEN [w EXCEPT !.t.msg = msg, !.t.pc = "bcast_raised"]
    ELSE BulkNextTarget([w EXCEPT !.t.msg = msg, !.t.idx = 0, !.t.target = 0,
                                  !.t.disconnected = <<>>])

\* lines 905-908: the outer `except`, up to its save_bulk_operation (an
\* error_message that names no operation is written 0)
PipelineFailed(w) ==
    [SetStatus(w, "failed") EXCEPT !.b.error_message = Some(0),
                                   !.t.raising = TRUE, !.t.msg = NoEvent,
                                   !.t.pc = "status_save"]

\* lines 893-900: the final broadcast has ended, or has raised
AfterComplete(w) ==
    IF w.t.pc = "bcast_send" THEN w
    ELSE IF w.t.pc = "bcast_raised" THEN PipelineFailed(Logged(w, "complete", 0, FALSE))
    ELSE [Logged(w, "complete", 0, TRUE) EXCEPT !.t.msg = NoEvent, !.t.pc = "status_save"]

\* lines 888-900: after the loop, up to the next await
AfterLoop(w) ==
    IF w.b.status # "failed"
    THEN LET w1 == [SetStatus(w, "completed") EXCEPT !.b.completed_at = Some(now)] IN
         AfterComplete(BulkBroadcast(w1, CompleteEvent(w1.b, w1.t.total_ops)))
    ELSE [w EXCEPT !.t.msg = NoEvent, !.t.pc = "status_save"]

OpFailed_Continue(w) ==
    LET w1 == [w EXCEPT !.b.error_message = Some(w.t.completed + 1),
                        !.t.completed = @ + 1] IN
    IF w1.t.completed < w1.t.total_ops
    THEN [w1 EXCEPT !.t.msg = NoEvent, !.t.pc = "op_save"]
    ELSE AfterLoop(SetStatus(w1, "failed"))
\* lines 882-886: the inner `except`: the error, which names the operation by
\* its number, is recorded and the loop left
OpFailed(w) ==
    AfterLoop(SetStatus([w EXCEPT !.b.error_message = Some(w.t.completed + 1)],
                        "failed"))

\* line 865: the next operation of the loop, suspended in the insert_one of
\* its save_operation_to_history, or the end of the loop
LoopTop(w) ==
    IF w.t.completed < w.t.total_ops
    THEN [w EXCEPT !.t.msg = NoEvent, !.t.pc = "op_save"]
    ELSE AfterLoop(w)

\* lines 871-880: the progress broadcast has ended, or has raised
AfterProgress(w) ==
    IF w.t.pc = "bcast_send" THEN w
    ELSE IF w.t.pc = "bcast_raised"
    THEN OpFailed(Logged(w, "progress", w.t.completed, FALSE))
    ELSE LET completed == w.t.completed + 1 IN
         LoopTop([Logged(w, "progress", w.t.completed, TRUE) EXCEPT
                     !.t.completed = completed,
                     !.b.progress = ProgressOf(completed, w.t.total_ops)])

AfterBroadcast(w) ==
    IF w.t.msg.type = "bulk_operation_progress" THEN AfterProgress(w)
    ELSE AfterComplete(w)

\* the step of the task leaves the world w; the sockets in `gone` were found
\* closed by it
BulkCommit(w, gone) ==
    LET s == bulk_op.sheet_type
        before == Range(BulkWorld.conns)
        after == Range(w.conns)
        delta == (before \ after) \cup (after \ before) IN
    /\ active_connections' =
          IF KnownSheet(bulk_op) THEN [active_connections EXCEPT ![s] = w.conns]
          ELSE active_connections
    /\ ws' = [x \in Conns |->
                IF ws[x].pc \in {"bcast_send", "op_send"} /\ ws[x].sheet_type = s
                THEN [ws[x] EXCEPT !.changed = @ \cup delta]
                ELSE ws[x]]
    /\ closed' = closed \cup gone
    /\ bulk_op' = w.b
    /\ task' = w.t
    /\ bulk_log' = w.log
    /\ status_trail' = w.trail
    /\ UNCHANGED <<user_presence, operation_history, events, last_in>>

\* bulk_update, bulk_delete, bulk_import (lines 1040-1179): the endpoint has
\* no await; a request it cannot read is answered 500
BulkSubmit(r) ==
    /\ Suspended
    /\ bulk_resp = NoBulkResp
    /\ IF ~WellFormed(r)
       THEN /\ bulk_resp' = [status |-> 500]
            /\ UNCHANGED <<bulk_op, task, status_trail>>
       ELSE LET operations == BuildOperations(r)
                b == NewBulkOperation(r, operations) IN
            /\ bulk_op' = b
            /\ task' = CreateTask(b)
            /\ status_trail' = <<b.status>>
            /\ bulk_resp' = [status |-> 200, bulk_operation_id |-> b.operation_id,
                             total_operations |-> Len(operations)]
    /\ UNCHANGED <<bulk_operations, status_resp, bulk_log, collabVars>>

\* lines 858-868: the task starts and runs up to its first await
BulkStart ==
    /\ Suspended
    /\ task.pc = "start"
    /\ \E w \in {LoopTop([SetStatus(BulkWorld, "processing") EXCEPT
                               !.t.total_ops = Len(bulk_op.operations),
                               !.t.completed = 0])} :
          BulkCommit(w, {})
    /\ UNCHANGED <<bulk_operations, bulk_resp, status_resp, collaborative_operations>>

\* lines 845-852, 868-871: the insert_one of save_operation_to_history ends
\* (an error is logged and swallowed); the progress event is broadcast
BulkOpSaved(ok) ==
    LET w == Logged(BulkWorld, "persist", task.completed, ok) IN
    /\ Suspended
    /\ task.pc = "op_save"
    /\ collaborative_operations' =
          IF ok THEN collaborative_operations \cup {[by |-> 0, n |-> task.completed + 1]}
          ELSE collaborative_operations
    /\ \E w1 \in {BulkBroadcast(w, ProgressEvent(bulk_op, task.completed,
                                                  task.total_ops))} :
       \E w2 \in {AfterProgress(w1)} :
          BulkCommit(w2, {})
    /\ UNCHANGED <<bulk_operations, bulk_resp, status_resp>>

\* lines 816-825: one send of the task's broadcast ends, with success or with
\* an exception; the loop goes on, and after its last send the coroutine runs
\* through the pops and on to its next await
BulkSent(ok) ==
    LET t == task.target
        w == IF ok THEN BulkWorld
             ELSE [BulkWorld EXCEPT !.t.disconnected = Append(@, task.idx - 1)] IN
    /\ Suspended
    /\ task.pc = "bcast_send"
    /\ SendOutcome(t, ok)
    /\ \E w1 \in {BulkNextTarget(w)} :
       \E w2 \in {AfterBroadcast(w1)} :
          BulkCommit(w2, Gone(t, ok))
    /\ UNCHANGED <<bulk_operations, bulk_resp, status_resp, collaborative_operations>>

\* lines 903-904, 908-909, 912-926: the update_one of save_bulk_operation
\* ends (an error is logged and swallowed); the task returns or re-raises
BulkStatusSaved(ok) ==
    /\ Suspended
    /\ task.pc = "status_save"
    /\ bulk_operations' =
          IF ok THEN UpsertBulk(bulk_operations, BulkDoc(bulk_op)) ELSE bulk_operations
    /\ task' = [task EXCEPT !.pc = IF task.raising THEN "raised" ELSE "returned"]
    /\ bulk_log' = Append(bulk_log, [ev |-> "status_saved", i |-> 0, ok |-> ok])
    /\ UNCHANGED <<bulk_op, bulk_resp, status_resp, status_trail, collabVars>>

\* get_bulk_status (lines 1182-1204) with get_bulk_operation_status (lines
\* 929-943): a lookup that fails, or finds nothing, is answered 404 (log:
\* what get_bulk_operation_status has logged)
GetBulkStatus(ok) ==
    LET found == {x \in bulk_operations : x.operation_id = BULK_ID} IN
    /\ Suspended
    /\ bulk_resp.status = 200
    /\ status_resp' =
          IF ok /\ found # {} THEN StatusResponse(BulkFromDoc(CHOOSE x \in found : TRUE))
          ELSE [status |-> 404, log |-> IF ok THEN "none" ELSE "Failed to get"]
    /\ UNCHANGED <<bulk_op, task, bulk_operations, bulk_resp, bulk_log, status_trail,
                   collabVars>>

BulkTask ==
    \/ BulkStart
    \/ \E ok \in BOOLEAN : BulkOpSaved(ok)
    \/ \E ok \in BOOLEAN : BulkSent(ok)
    \/ \E ok \in BOOLEAN : BulkStatusSaved(ok)

\* the subscribers of the pipeline's channel: connections that join, are
\* sent to, and leave
Subscribers ==
    /\ \/ \E c \in Conns : \E sheet \in SheetChoices(c) : WsConnect(c, sheet)
       \/ \E c \in Conns, ok \in BOOLEAN : PresenceSent(c, ok)
       \/ \E c \in Conns, ok \in BOOLEAN : BcastSent(c, ok)
       \/ \E c \in Conns : BcastPops(c)
       \/ \E c \in Conns : WsDisconnect(c)
    /\ events' <= MaxSubscribers
    /\ UNCHANGED bulkVars

BulkStep ==
    \/ \E r \in BulkRequests : BulkSubmit(r)
    \/ BulkTask
    \/ \E ok \in BOOLEAN : GetBulkStatus(ok)
    \/ Subscribers

\* ------------------------------------------ the progress figures of a run
\* the loop of process_bulk_operation with every save and broadcast
\* succeeding, for its numbers alone: the batch size, the local `completed`,
\* bulk_op.progress, and the figures of the progress event sent last
NoFigures == [progress |-> 0, current_operation |-> 0, total_operations |-> 0]
MeterInit ==
    \E n \in 1..MaxBatch :
        meter = [total_ops |-> n, completed |-> 0, progress |-> 0, event |-> NoFigures]
MeterOff == meter = [total_ops |-> 0, completed |-> 0, progress |-> 0, event |-> NoFigures]
\* lines 865-881: one iteration of the loop
LoopIteration ==
    /\ meter.completed < meter.total_ops
    /\ meter' = [meter EXCEPT
          !.event = [progress |-> ProgressOf(meter.completed + 1, meter.total_ops),
                     current_operation |-> meter.completed + 1,
                     total_operations |-> meter.total_ops],
          !.completed = @ + 1,
          !.progress = ProgressOf(meter.completed + 1, meter.total_ops)]

\* ------------------------------------------------------- specifications
RetryNext == RetryStep /\ UNCHANGED <<dedupVars, readVars, collabVars, bulkVars, meter>>
InitRetry == RetryInit /\ DedupInit /\ ReadOff /\ CollabInit /\ BulkInit /\ MeterOff
SpecRetry == InitRetry /\ [][RetryNext]_vars

DedupNext == DedupStep /\ UNCHANGED <<retryVars, readVars, collabVars, bulkVars, meter>>
InitDedup == RetryOff /\ DedupInit /\ ReadOff /\ CollabInit /\ BulkInit /\ MeterOff
SpecDedup == InitDedup /\ [][DedupNext]_vars

\* what the event loop is bound to do: the originating call ends (func
\* returns or raises, or the task is cancelled), a waiter whose future is done
\* is resumed, and the cleanup task runs after its sleep
OriginEnds ==
    /\ \/ \E c \in Callers, kind \in {"result", "exception"} : DedupFinish(c, kind)
       \/ \E c \in Callers : DedupCancel(c)
    /\ UNCHANGED <<retryVars, readVars, collabVars, bulkVars, meter>>
WaiterResumes ==
    /\ \E c \in Callers : DedupWake(c)
    /\ UNCHANGED <<retryVars, readVars, collabVars, bulkVars, meter>>
CleanupRuns ==
    /\ \E t \in cleanups : DedupCleanup(t)
    /\ UNCHANGED <<retryVars, readVars, collabVars, bulkVars, meter>>
SpecDedupLive ==
    SpecDedup /\ WF_vars(OriginEnds) /\ WF_vars(WaiterResumes) /\ WF_vars(CleanupRuns)

ReadNext ==
    ReadStep /\ UNCHANGED <<retryVars, c_pc, c_key, c_fut, c_inv, c_out, c_arrival,
                           collabVars, bulkVars, meter>>
InitRead == RetryOff /\ DedupInit /\ ReadInit /\ CollabInit /\ BulkInit /\ MeterOff
SpecRead == InitRead /\ [][ReadNext]_vars

CollabNext == CollabStep /\ UNCHANGED <<retryVars, dedupVars, readVars, bulkVars, meter>>
InitCollab == RetryOff /\ DedupInit /\ ReadOff /\ CollabInit /\ BulkInit /\ MeterOff
SpecCollab == InitCollab /\ [][CollabNext]_vars

BulkNext == BulkStep /\ UNCHANGED <<retryVars, dedupVars, readVars, meter>>
InitBulk == RetryOff /\ DedupInit /\ ReadOff /\ CollabInit /\ BulkInit /\ MeterOff
SpecBulk == InitBulk /\ [][BulkNext]_vars
\* the event loop runs a task that is ready: a pending insert, update or send
\* ends, and a coroutine that can go on does
TaskRuns == BulkTask /\ UNCHANGED <<retryVars, dedupVars, readVars, meter>>
PopsRun ==
    /\ \E c \in Conns : BcastPops(c)
    /\ UNCHANGED <<retryVars, dedupVars, readVars, bulkVars, meter>>
SpecBulkLive == SpecBulk /\ WF_vars(TaskRuns) /\ WF_vars(PopsRun)

MeterNext ==
    LoopIteration /\ UNCHANGED <<retryVars, dedupVars, readVars, collabVars, bulkVars>>
InitMeter == RetryOff /\ DedupInit /\ ReadOff /\ CollabInit /\ BulkInit /\ MeterInit
SpecMeter == InitMeter /\ [][MeterNext]_vars

\* ====================================================================
\* Properties of retry_with_backoff (checked under SpecRetry)
\* ====================================================================
RECURSIVE Pow(_, _)
Pow(b, n) == IF n = 0 THEN 1 ELSE b * Pow(b, n - 1)

RetryDone == rw_pc \in {"returned", "raised"}
IsTransientFailure(c) == ~c.ok /\ c.response \in TRANSIENT_STATUS
AllTransient == \A i \in 1..Len(calls) : IsTransientFailure(calls[i])

\* C4: a producer that fails with a transient status on every attempt is
\* invoked exactly max_retries + 1 times and the wrapper then fails; no
\* producer is ever invoked more than max_retries + 1 times, and the wrapper
\* stops at the first attempt that succeeds.
C4_RetryBound ==
    /\ Len(calls) <= max_retries + 1
    /\ \A i \in 1..Len(calls) :
          calls[i].ok => (i = Len(calls) /\ rw_pc = "returned")
    /\ (RetryDone /\ AllTransient) =>
          (Len(calls) = max_retries + 1 /\ rw_pc = "raised")
    /\ (AllTransient /\ Len(calls) < max_retries + 1) => ~RetryDone

C4_Witness ==
    /\ rw_pc = "raised"
    /\ AllTransient
    /\ max_retries >= 2
    /\ Len(calls) = max_retries + 1

\* C5: a failure that is not transient (a status outside the transient set,
\* or no upstream status at all) is raised to the caller by the attempt that
\* produced it: the producer is not invoked again and no delay is slept for
\* it; when it is the first attempt, the producer ran exactly once and
\* nothing was slept.
C5_NoRetryOnPermanent ==
    \A i \in 1..Len(calls) :
        (~calls[i].ok /\ calls[i].response \notin TRANSIENT_STATUS) =>
            /\ i = Len(calls)
            /\ rw_pc = "raised"
            /\ rw_out.kind = "raise"
            /\ rw_out.exc = [id |-> i, response |-> calls[i].response]
            /\ Len(sleeps) = i - 1

C5_Witness ==
    /\ max_retries >= 1
    /\ Len(calls) = 1
    /\ ~calls[1].ok
    /\ calls[1].response \in PERMANENT_STATUS
    /\ rw_pc = "raised"
    /\ sleeps = <<>>

\* C6: when the wrapper gives up, the failure it raises is the one raised by
\* the last attempt, and a failed final attempt never becomes a normal return.
C6_LastFailureRaised ==
    /\ rw_pc = "raised" =>
          /\ rw_out.kind = "raise"
          /\ rw_out.exc.id = Len(calls)
          /\ ~calls[Len(calls)].ok
          /\ rw_out.exc.response = calls[Len(calls)].response
    /\ rw_pc = "returned" => (rw_out.kind = "return" /\ calls[Len(calls)].ok)
    /\ (RetryDone /\ ~calls[Len(calls)].ok) => rw_pc = "raised"

C6_Witness ==
    /\ rw_pc = "raised"
    /\ max_retries >= 1
    /\ Len(calls) = max_retries + 1
    /\ calls[1].response # calls[Len(calls)].response
    /\ rw_out.exc.id = Len(calls)

\* C8: the delay slept after the i-th failed transient attempt (i = 0, 1, ..)
\* is min(base_delay * backoff_factor^i, max_delay), whatever base_delay,
\* max_delay and backoff_factor >= 1 are, and nothing is slept after the
\* final attempt.
C8_DelayFormula ==
    /\ \A i \in 1..Len(sleeps) :
          sleeps[i] = Min(base_delay * Pow(backoff_factor, i - 1), max_delay)
    /\ Len(sleeps) <= Len(calls)
    /\ RetryDone => Len(sleeps) = Len(calls) - 1

\* ====================================================================
\* Properties of deduplicate_requests (checked under SpecDedup)
\* ====================================================================
\* C1: calls that arrive for a key while the first call for that key is
\* still running do not invoke the producer, and end with the outcome of
\* that first call (its result, or its failure); the first call's outcome is
\* what its single producer invocation produced; calls with different keys
\* never end with the same outcome.
C1_Coalescing ==
    /\ \A c \in Callers :
          c_arrival[c].case = "inflight" =>
              LET o == c_arrival[c].with IN
              /\ c_inv[c] = 0
              /\ c_fut[c] = c_fut[o]
              /\ (c_pc[c] = "done" /\ c_pc[o] = "done") => c_out[c] = c_out[o]
              /\ c_pc[c] = "done" => c_pc[o] = "done"
    /\ \A c \in Callers :
          (c_pc[c] = "done" /\ c_inv[c] # 0) =>
              /\ c_out[c] = [kind |-> invocations[c_inv[c]].kind, inv |-> c_inv[c]]
              /\ invocations[c_inv[c]].key = c_key[c]
    /\ \A c1, c2 \in Callers :
          (c1 # c2 /\ c_inv[c1] # 0) => c_inv[c1] # c_inv[c2]
    /\ \A c1, c2 \in Callers :
          (c_pc[c1] = "done" /\ c_pc[c2] = "done" /\ c_key[c1] # c_key[c2]) =>
              c_out[c1].inv # c_out[c2].inv

C1_Witness ==
    \E o, c1, c2 \in Callers :
        /\ c1 # c2
        /\ c_arrival[c1] = [case |-> "inflight", with |-> o, fut |-> 0]
        /\ c_arrival[c2] = [case |-> "inflight", with |-> o, fut |-> 0]
        /\ c_pc[o] = "done" /\ c_pc[c1] = "done" /\ c_pc[c2] = "done"
        /\ c_out[o].kind = "exception"
        /\ c_out[c1] = c_out[o] /\ c_out[c2] = c_out[o]

\* C9: a call that arrives when the table still holds the resolved entry of
\* its key ends at once with that entry's outcome and does not invoke the
\* producer; a call that arrives after the entry was removed invokes the
\* producer again.
C9_GraceWindow ==
    \A c \in Callers :
        /\ c_arrival[c].case = "grace" =>
              /\ c_inv[c] = 0
              /\ c_pc[c] = "done"
              /\ c_out[c] = futures[c_arrival[c].fut]
              /\ c_out[c].kind \in {"result", "exception"}
        /\ c_arrival[c].case = "removed" =>
              /\ c_inv[c] # 0
              /\ invocations[c_inv[c]].key = c_key[c]
              /\ \E i \in 1..(c_inv[c] - 1) : invocations[i].key = c_key[c]

C9_Witness ==
    \E c1, c2 \in Callers :
        /\ c_arrival[c1].case = "grace"
        /\ c_out[c1].kind = "exception"
        /\ c_arrival[c2].case = "removed"
        /\ c_key[c1] = c_key[c2]
        /\ c_pc[c2] = "done"
        /\ c_out[c2].inv # c_out[c1].inv

\* ====================================================================
\* Properties of the fetch-with-cache reads and of the cache
\* (checked under SpecRead)
\* ====================================================================
KeyOf(q) == <<ResourceType(q.handler), q.id>>
Age(stamp) == now - FromIsoFormat(stamp)
FreshDocs(k) ==
    {d \in Matching(cache, k[1], k[2]) : Age(d.cached_at) <= CACHE_TTL_HOURS}

\* the step in which client r's handler sends its response (last_resp')
Responds(r) == req[r].pc # "idle" /\ req'[r].pc = "idle"
\* the step in which find_one of client r's get_cached_resource ends
LookupEnds(r) == req[r].pc = "cache_find" /\ req'[r].pc # "cache_find"
LookupFailed(r) ==
    Responds(r) /\ "Error getting cached resource" \in last_resp'.log
AnswersFrom(q, data, stamp) ==
    /\ last_resp'.handler = q.handler
    /\ last_resp'.id = q.id
    /\ last_resp'.status = 200
    /\ last_resp'.data = data
    /\ last_resp'.cached_at = stamp

\* C2 (as claimed): when the live fetch of get_sheet_data / get_drive_folder
\* has failed, the read answers from the cache entry of its key, marked
\* cached and with the entry's cached_at, if that entry is not older than the
\* TTL, and answers with an error if there is no entry or only an expired
\* one; a read answers with an error in no other case.
C2_FallbackLaw ==
    [][\A r \in Readers :
        LET q == req[r]
            fresh == FreshDocs(KeyOf(q)) IN
        q.handler \in FetchHandlers =>
          /\ LookupEnds(r) =>
                IF fresh # {}
                THEN /\ Responds(r)
                     /\ \E d \in fresh : AnswersFrom(q, d.data, d.cached_at)
                     /\ last_resp'.cached = TRUE
                ELSE \/ req'[r].pc = "cache_delete"
                     \/ Responds(r) /\ last_resp'.status = 500
          /\ (q.pc = "cache_delete" /\ Responds(r)) => last_resp'.status = 500
          /\ (Responds(r) /\ last_resp'.status # 200) =>
                \/ q.pc = "cache_delete"
                \/ q.pc = "cache_find" /\ fresh = {}
    ]_vars

\* C2 (amended): as above, except that a cache lookup that itself fails
\* counts as "no entry": the read answers from a fresh entry when the lookup
\* succeeds, and an error is answered only after a failed fetch when the
\* entry is absent or expired or the lookup failed.
C2_FallbackLawAmended ==
    [][\A r \in Readers :
        LET q == req[r]
            fresh == FreshDocs(KeyOf(q)) IN
        q.handler \in FetchHandlers =>
          /\ LookupEnds(r) =>
                IF fresh # {} /\ ~LookupFailed(r)
                THEN /\ Responds(r)
                     /\ \E d \in fresh : AnswersFrom(q, d.data, d.cached_at)
                     /\ last_resp'.cached = TRUE
                ELSE \/ req'[r].pc = "cache_delete"
                     \/ Responds(r) /\ last_resp'.status = 500
          /\ (q.pc = "cache_delete" /\ Responds(r)) => last_resp'.status = 500
          /\ (Responds(r) /\ last_resp'.status # 200) =>
                \/ q.pc = "cache_delete"
                \/ q.pc = "cache_find" /\ (fresh = {} \/ LookupFailed(r))
    ]_vars

C2_Witness ==
    /\ last_resp.handler = "get_drive_folder"
    /\ last_resp.status = 200
    /\ last_resp.cached = TRUE
    /\ last_resp.data = <<"file", "file">>
    /\ \E d \in cache : d.resource_type = "drive_folder" /\ d.data = last_resp.data
                        /\ d.cached_at = last_resp.cached_at

\* C3: a read whose live fetch succeeded answers the fetched payload, marked
\* not cached, whatever the cache held; when the cache write did not fail the
\* cache then holds, for the key, exactly one entry with that payload and the
\* time of the write, and the entries of other keys are untouched; the cache
\* never holds two entries for one key.
UniquePerKey ==
    \A d1, d2 \in cache :
        (d1.resource_type = d2.resource_type /\ d1.resource_id = d2.resource_id)
            => d1 = d2

C3_FreshOverwrite ==
    /\ []UniquePerKey
    /\ [][\A r \in Readers :
          LET q == req[r]
              k == KeyOf(q) IN
          /\ (q.pc = "http" /\ req'[r].pc = "cache_write") =>
                /\ futures'[q.fut].kind = "result"
                /\ req'[r].data = futures'[q.fut].data
          /\ (q.pc = "await_fut" /\ req'[r].pc = "cache_write") =>
                /\ futures[q.fut].kind = "result"
                /\ req'[r].data = futures[q.fut].data
          /\ (q.pc = "cache_write" /\ Responds(r)) =>
                /\ AnswersFrom(q, q.data, NoStamp)
                /\ last_resp'.cached = FALSE
                /\ "Error caching resource" \notin last_resp'.log =>
                      Matching(cache', k[1], k[2]) =
                          {[resource_type |-> k[1], resource_id |-> k[2],
                            data |-> q.data, cached_at |-> IsoFormat(now)]}
                /\ \A k2 \in Keys \ {k} :
                      Matching(cache', k2[1], k2[2]) = Matching(cache, k2[1], k2[2])
       ]_vars

C3_Witness ==
    /\ now > 0
    /\ last_resp.handler = "get_sheet_data"
    /\ last_resp.id = "a"
    /\ last_resp.status = 200
    /\ last_resp.cached = FALSE
    /\ last_resp.data = <<"row">>
    /\ last_resp.log = {}
    /\ Matching(cache, "sheet", "a") =
          {[resource_type |-> "sheet", resource_id |-> "a", data |-> <<"row">>,
            cached_at |-> IsoFormat(now)]}

\* C7: a sheet read whose upstream call failed with a transient status and
\* whose retry budget is not used up retries the fetch: it does not turn to
\* the cache.
C7_SheetRetriesTransient ==
    \A r \in Readers :
        (/\ req[r].handler = "get_sheet_data"
         /\ req[r].status \in TRANSIENT_STATUS
         /\ req[r].attempt < SHEET_MAX_RETRIES)
            => req[r].pc \notin {"cache_find", "cache_delete"}

DeleteEnds(r) == req[r].pc = "cache_delete" /\ Responds(r)
Absent == last_resp'.status # 200
PutEnds(k) ==
    \E r \in Readers :
        req[r].pc = "cache_write" /\ Responds(r) /\ KeyOf(req[r]) = k
FreshAfter(k) ==
    {d \in Matching(cache', k[1], k[2]) :
        now' - FromIsoFormat(d.cached_at) <= CACHE_TTL_HOURS}

Broadcasting(c) == ws[c].pc \in {"bcast_send", "pops"}
\* handler c takes a step
StepOf(c) == ws'[c].pc # ws[c].pc \/ ws'[c].idx # ws[c].idx
\* the pending send of handler c ends in this step, with success
Delivers(c, t) ==
    /\ ws[c].pc \in {"bcast_send", "op_send"}
    /\ ws[c].target = t
    /\ StepOf(c)
    /\ t \notin closed'
\* the pending send of handler c ends in this step, with an exception
FailsToSend(c) ==
    /\ ws[c].pc \in {"bcast_send", "op_send"}
    /\ StepOf(c)
    /\ ws[c].target \in closed'
\* handler c picks the next connection to send to
PicksTarget(c) ==
    /\ StepOf(c)
    /\ ws'[c].pc \in {"bcast_send", "op_send"}
Attempted(h) == Range(h.sent) \cup h.failed
\* the members of s that are not in the set out, in the order of s
Without(s, out) == LET Keep(x) == x \notin out IN SelectSeq(s, Keep)
\* a broadcast of c has made all its sends and no connection joined or left
\* its channel meanwhile
Undisturbed(c) == ws[c].pc = "pops" /\ ws[c].changed = {}

\* C12: when no connection joins or leaves the channel during a
\* broadcast_to_sheet call, the call sends to every subscriber (a failed send
\* does not stop the sends after it), delivers in membership order to those
\* whose send succeeds, and leaves as the subscriber list the prior list
\* without the subscribers whose send failed, in the same order; the target of
\* every send is taken from the current list, so a pruned subscriber is not
\* the target of a later broadcast.
C12_FanOut ==
    /\ [](\A c \in Conns : Undisturbed(c) =>
            /\ Attempted(ws[c]) = Range(ws[c].start)
            /\ ws[c].sent = Without(ws[c].start, ws[c].failed))
    /\ [][\A c \in Conns :
            /\ (Undisturbed(c) /\ StepOf(c)) =>
                  /\ active_connections'[ws[c].sheet_type] =
                        Without(ws[c].start, ws[c].failed)
                  /\ ws'[c].error = ws[c].error
            /\ (Broadcasting(c) /\ PicksTarget(c) /\ ws'[c].pc = "bcast_send") =>
                  ws'[c].target \in Range(active_connections'[ws'[c].sheet_type])
       ]_vars

\* a broadcast over three subscribers, left alone, has failed for one of them
\* and delivered to one after it
C12_Witness ==
    \E c \in Conns :
        /\ Undisturbed(c)
        /\ Len(ws[c].start) = 3
        /\ \E i, j \in 1..3 :
              /\ i < j
              /\ ws[c].start[i] \in ws[c].failed
              /\ ws[c].start[j] \in Range(ws[c].sent)

\* s is t with some members left out (same relative order)
RECURSIVE IsSubSeq(_, _)
IsSubSeq(s, t) ==
    IF s = <<>> THEN TRUE
    ELSE IF t = <<>> THEN FALSE
    ELSE IF Head(s) = Head(t) THEN IsSubSeq(Tail(s), Tail(t))
    ELSE IsSubSeq(s, Tail(t))

\* C13: a broadcast sends, in membership order, to every subscriber that was
\* in the channel when the broadcast began (and has stayed in it), also when
\* other subscribers joined or left while the broadcast was suspended in a
\* send: when its sends are over, every connection of the list it started
\* from that has not left meanwhile has been sent to.
C13_SnapshotDelivery ==
    \A c \in Conns :
        ws[c].pc = "pops" =>
            /\ (Range(ws[c].start) \ ws[c].changed) \subseteq Attempted(ws[c])
            /\ IsSubSeq(ws[c].sent, ws[c].start)

\* C14: the pops at the end of a broadcast remove only connections whose
\* send failed in that broadcast, and raise no IndexError, whatever joined or
\* left the channel during the broadcast.
C14_PruneOnlyFailed ==
    [][\A c \in Conns :
        (ws[c].pc = "pops" /\ StepOf(c)) =>
            LET s == ws[c].sheet_type
                removed == Range(active_connections[s]) \
                           Range(active_connections'[s]) IN
            /\ ws'[c].error = ws[c].error
            /\ removed \subseteq ws[c].failed
    ]_vars

\* the step in which connection c is accepted and registered
Joins(c) == ws[c].pc = "idle" /\ ws'[c].pc = "presence_send"
UsersOf(conns) == {UserOf(x) : x \in Range(conns)}
\* handler c is ending: it is in its `finally:` block or past it
Leaving(h) == h.ret = "done" \/ h.pc = "done"

\* C15: the presence_update sent to a joiner lists the joiner and the user
\* of every connection already in the channel; no user_joined of the join is
\* sent before the presence_update has been sent; and when the user_joined
\* broadcast has made its sends, every connection that was in the channel
\* before the joiner, and has stayed, has been sent the user_joined.
C15_JoinProtocol ==
    /\ [](\A j \in Conns :
            /\ ws[j].msg.type = "user_joined" => ws[j].users = {}
            /\ (ws[j].pc = "pops" /\ ws[j].msg.type = "user_joined") =>
                  ((Range(ws[j].start) \ {j}) \ ws[j].changed)
                      \subseteq Attempted(ws[j]))
    /\ [][\A j \in Conns :
            Joins(j) =>
              /\ ws'[j].msg.type # "user_joined"
              /\ ({UserOf(j)} \cup UsersOf(active_connections[ws'[j].sheet_type]))
                    \subseteq ws'[j].users
       ]_vars

\* C16: no connection receives the user_joined event of its own join.
C16_NoSelfJoined ==
    [][\A j \in Conns : ~(Delivers(j, j) /\ ws[j].msg.type = "user_joined")]_vars

\* C17: when a session ends, its connection and its user's presence entry are
\* removed before the user_left broadcast begins; user_left is never sent to
\* the leaver; no send picks a connection whose session is ending; and when
\* the user_left broadcast has made its sends, every connection that was in
\* the channel when it began, and has stayed, has been sent the user_left.
C17_LeaveProtocol ==
    /\ [](\A c \in Conns :
            /\ ws[c].msg.type = "user_left" => ws[c].target # c
            /\ (ws[c].pc = "pops" /\ ws[c].msg.type = "user_left") =>
                  (Range(ws[c].start) \ ws[c].changed) \subseteq Attempted(ws[c]))
    /\ [][\A c \in Conns :
            /\ (ws'[c].msg.type = "user_left" /\ ws[c].msg.type # "user_left") =>
                  /\ c \notin Range(active_connections'[ws[c].sheet_type])
                  /\ user_presence'[ws[c].sheet_type][UserOf(c)] = NoPresence
            /\ PicksTarget(c) => ~Leaving(ws'[ws'[c].target])
       ]_vars

IsPrefix(s, t) == Len(s) <= Len(t) /\ \A i \in 1..Len(s) : s[i] = t[i]
OperationOf(msg) == [by |-> msg.about, n |-> msg.n]

\* C18: an operation is in its channel's operation history before it is
\* delivered to anyone; it is delivered only to connections of the sender's
\* channel and never to the sender; the history of a channel only grows, at
\* its end, and holds the operations in the order they were received.
C18_PublishOperation ==
    /\ [](\A s \in Sheets :
            \A i, j \in 1..Len(operation_history[s]) :
                i < j => operation_history[s][i].n < operation_history[s][j].n)
    /\ [](\A c \in Conns :
            ws[c].pc \in {"op_save", "op_send"} =>
                OperationOf(ws[c].msg) \in Range(operation_history[ws[c].sheet_type]))
    /\ [][/\ \A s \in Sheets : IsPrefix(operation_history[s], operation_history'[s])
          /\ \A c, t \in Conns :
                (Delivers(c, t) /\ ws[c].msg.type = "operation") =>
                    /\ t # c
                    /\ ws[t].sheet_type = ws[c].sheet_type
                    /\ OperationOf(ws[c].msg) \in
                          Range(operation_history[ws[c].sheet_type])
       ]_vars

\* an operation that is in the history has been delivered to one connection
\* and is being sent to the next
C18_Witness ==
    \E c \in Conns :
        /\ ws[c].pc = "op_send"
        /\ Len(ws[c].sent) >= 1
        /\ c \notin Range(ws[c].sent)
        /\ OperationOf(ws[c].msg) \in Range(operation_history[ws[c].sheet_type])

\* C19: when the send of an operation to one subscriber fails, the sender's
\* loop goes on to the other subscribers and the sender's session goes on.
C19_OperationSendFailure ==
    [][\A c \in Conns :
        (ws[c].pc = "op_send" /\ FailsToSend(c)) =>
            /\ ws'[c].pc \in {"op_send", "receive"}
            /\ ~Leaving(ws'[c])
    ]_vars

\* C20: a message whose type is neither 'operation' nor 'cursor_update', or
\* that has no type, gets an error reply, and its receiver's session goes on
\* with its connection and presence registered.
C20_UnknownMessage ==
    [][\A c \in Conns :
        (last_in' # last_in /\ last_in'.to = c
            /\ last_in'.kind \in {"unknown", "no_type"}) =>
            /\ ws'[c].pc = "error_send"
            /\ Range(active_connections'[ws[c].sheet_type]) =
                  Range(active_connections[ws[c].sheet_type])
            /\ user_presence' = user_presence
    ]_vars

\* ====================================================================
\* Properties of the bulk operation pipeline (checked under SpecBulk)
\* ====================================================================
TaskEnded == task.pc \in {"returned", "raised"}
Persisted(i) == [by |-> 0, n |-> i + 1] \in collaborative_operations
Entries(ev) == {j \in 1..Len(bulk_log) : bulk_log[j].ev = ev}
StoredDocs == {x \in bulk_operations : x.operation_id = BULK_ID}

\* C21: the values assigned to a bulk operation's status are, in order,
\* pending, processing and then completed or failed, and nothing more: after
\* completed or failed no step of process_bulk_operation assigns it again.
C21_StatusMachine ==
    \/ IsPrefix(status_trail, <<"pending", "processing", "completed">>)
    \/ IsPrefix(status_trail, <<"pending", "processing", "failed">>)


\* C22: the task persists op_i before it broadcasts the progress event of
\* op_i, and has ended that broadcast before it persists op_(i+1): the
\* persists and the progress broadcasts of a batch alternate, in submission
\* order and once each, and an operation whose progress event was broadcast is
\* in the operation history store.
C22_SubmissionOrder ==
    \A j \in 1..Len(bulk_log) :
        LET e == bulk_log[j] IN
        /\ e.ev = "persist" =>
              /\ e.i = Cardinality({k \in Entries("persist") : k < j})
              /\ e.i < bulk_op.total_operations
              /\ j > 1 => bulk_log[j - 1] = [ev |-> "progress", i |-> e.i - 1, ok |-> TRUE]
        /\ e.ev = "progress" =>
              /\ j > 1
              /\ bulk_log[j - 1].ev = "persist"
              /\ bulk_log[j - 1].i = e.i
              /\ Persisted(e.i)


\* ====================================================================
\* Properties of the progress figures (checked under SpecMeter)
\* ====================================================================
Floor_Exact(completed, total_ops) == (completed * 100) \div total_ops

\* C23: the progress event of the i-th operation (from 0) of a batch of N
\* carries progress floor((i+1)*100/N), current_operation i+1 and
\* total_operations N; bulk_op.progress is floor(c*100/N) after c completed
\* steps, lies in 0..100 and never decreases.
C23_ProgressFigures ==
    [][/\ meter'.event =
             [progress |-> Floor_Exact(meter.completed + 1, meter.total_ops),
              current_operation |-> meter.completed + 1,
              total_operations |-> meter.total_ops]
       /\ meter'.progress = Floor_Exact(meter'.completed, meter.total_ops)
       /\ meter'.progress \in 0..100
       /\ meter'.progress >= meter.progress]_vars


\* the step that raised while an operation was processed, if any
FailedSteps == {j \in Entries("progress") : ~bulk_log[j].ok}
RecordSaved == bulk_log[Len(bulk_log)] = [ev |-> "status_saved", i |-> 0, ok |-> TRUE]
\* what C24 says of a run in which processing op_k raised, but for the
\* stored record
HaltsAt(j) ==
    LET k == bulk_log[j].i IN
    /\ bulk_op.status = "failed"
    /\ bulk_op.error_message = Some(k + 1)
    /\ bulk_op.progress = Floor_Exact(k, bulk_op.total_operations)
    /\ \A n \in (j + 1)..Len(bulk_log) : bulk_log[n].ev = "status_saved"
    /\ \A n \in 1..(j - 1) :
          bulk_log[n].ev = "persist" =>
              /\ bulk_log[n].i <= k
              /\ bulk_log[n].ok => Persisted(bulk_log[n].i)

C25_PersistFailureIsTerminal ==
    \A j \in Entries("persist") :
        ~bulk_log[j].ok =>
            /\ bulk_op.status = "failed"
            /\ bulk_op.error_message # None
            /\ \A n \in (j + 1)..Len(bulk_log) : bulk_log[n].ev = "status_saved"


Submits == bulk_resp = NoBulkResp /\ bulk_resp'.status = 200

\* C26: a bulk submit answers with the id of the bulk operation and with
\* total_operations equal to the number of operations it built, and when it
\* answers the task has not run: nothing of the batch is persisted or
\* broadcast, the status is still pending and no subscriber was touched.
C26_SubmitReturnsFirst ==
    [][Submits =>
          /\ bulk_resp'.bulk_operation_id = bulk_op'.operation_id
          /\ bulk_resp'.total_operations = Len(bulk_op'.operations)
          /\ bulk_op'.total_operations = Len(bulk_op'.operations)
          /\ task'.pc = "start"
          /\ bulk_op'.status = "pending"
          /\ bulk_log' = <<>>
          /\ bulk_operations' = {}
          /\ collaborative_operations' = collaborative_operations
          /\ active_connections' = active_connections
          /\ ws' = ws]_vars

C26_Witness ==
    /\ bulk_resp.status = 200
    /\ bulk_resp.total_operations = 3
    /\ task.pc = "start"
    /\ bulk_op.sheet_type = "supply"
    /\ active_connections["supply"] # <<>>


\* a non-empty batch on a known channel was accepted
Accepted == task.pc # "none" /\ bulk_op.total_operations > 0 /\ KnownSheet(bulk_op)
\* no step of the run raised or failed, the save of the record included
StepsSucceed == \A j \in 1..Len(bulk_log) : bulk_log[j].ok
ReportsCompleted(resp) ==
    /\ resp.status = 200
    /\ resp.bulk_status = "completed"
    /\ resp.progress = 100
    /\ resp.completed_at # None
Polls == status_resp' # status_resp
Settled == Accepted /\ TaskEnded /\ StepsSucceed

\* C27: a non-empty batch on a known channel runs to its end; if every step
\* succeeded and the record was saved, the stored record shows status
\* completed, progress 100 and a completed_at, and every get_status from then
\* on reports just that.
C27_StatusAfterSuccess ==
    /\ Accepted ~> TaskEnded
    /\ [](Settled => \A x \in StoredDocs : ReportsCompleted(StatusResponse(BulkFromDoc(x))))
    /\ [](Settled => StoredDocs # {})
    /\ [][Settled /\ Polls => ReportsCompleted(status_resp')]_vars

\* C27 as the code has it: a get_status whose lookup fails is answered 404
\* (get_bulk_operation_status logs the error and returns None); every other
\* get_status reports the completed record.
C27_StatusAfterSuccessAmended ==
    /\ Accepted ~> TaskEnded
    /\ [](Settled => \A x \in StoredDocs : ReportsCompleted(StatusResponse(BulkFromDoc(x))))
    /\ [](Settled => StoredDocs # {})
    /\ [][Settled /\ Polls =>
            \/ ReportsCompleted(status_resp')
            \/ status_resp' = [status |-> 404, log |-> "Failed to get"]]_vars

C27_Witness ==
    /\ Settled
    /\ bulk_op.total_operations = 3
    /\ ReportsCompleted(status_resp)
    /\ active_connections["supply"] # <<>>



Terminal(b) == b.status \in {"completed", "failed"}
StampedWhenTerminal(b) ==
    /\ Terminal(b) => b.completed_at # None
    /\ b.status \in {"pending", "processing"} => b.completed_at = None

\* C28: a bulk operation whose status is completed or failed has completed_at
\* set, and one whose status is pending or processing has not, in the task's
\* object and in every stored record.
C28_CompletedAtWhenTerminal ==
    /\ bulk_op # NoBulkOp => StampedWhenTerminal(bulk_op)
    /\ \A x \in StoredDocs : StampedWhenTerminal(BulkFromDoc(x))



\* the task is in the send_json that hands the bulk_operation_complete event
\* to the subscriber task.target
CompleteBroadcast ==
    /\ task.pc = "bcast_send"
    /\ task.msg.type = "bulk_operation_complete"
    /\ task.target \in Conns
CompletedStored == \E x \in StoredDocs : x.status = "completed"

\* C29: on a run whose steps all succeed, the completed record is in the store
\* when the bulk_operation_complete event is sent to a subscriber, and a
\* get_status made at that moment (whose lookup succeeds) reports completed.
C29_PersistBeforeComplete ==
    /\ [](Accepted /\ StepsSucceed /\ CompleteBroadcast => CompletedStored)
    /\ [][Accepted /\ StepsSucceed /\ CompleteBroadcast /\ Polls
           /\ status_resp' # [status |-> 404, log |-> "Failed to get"]
          => ReportsCompleted(status_resp')]_vars



\* every save of the run so far succeeded
SavesSucceed ==
    \A j \in 1..Len(bulk_log) :
        bulk_log[j].ev \in {"persist", "status_saved"} => bulk_log[j].ok
\* the operations were persisted one after the other, each once
PersistedInOrder ==
    LET saved == SelectSeq(bulk_log, LAMBDA e : e.ev = "persist") IN
    /\ Len(saved) = bulk_op.total_operations
    /\ \A i \in 1..Len(saved) : saved[i].i = i - 1 /\ Persisted(i - 1)

\* C30: whatever the subscribers of the channel do while the task runs
\* (leave, or fail to take a message), a run on a known channel whose saves
\* succeed has persisted every operation in order and is completed when it
\* ends.
C30_SubscribersDoNotHalt ==
    Accepted /\ TaskEnded /\ SavesSucceed =>
        /\ PersistedInOrder
        /\ bulk_op.status = "completed"
        /\ task.pc = "returned"



\* a get_status whose lookup in the store did not fail
PollAnswered == Polls /\ status_resp' # [status |-> 404, log |-> "Failed to get"]

\* C31: once a bulk submit has answered with the id, every get_status for it
\* (whose lookup succeeds) finds a record: with status pending or processing
\* and the progress reached so far while the task runs, and with the task's
\* final status once it has ended.
C31_StatusAlwaysFound ==
    [][bulk_resp.status = 200 /\ PollAnswered =>
          /\ status_resp'.status = 200
          /\ status_resp'.operation_id = bulk_resp.bulk_operation_id
          /\ IF TaskEnded THEN status_resp'.bulk_status = bulk_op.status
             ELSE /\ status_resp'.bulk_status \in {"pending", "processing"}
                  /\ status_resp'.progress = bulk_op.progress]_vars



\* the entries of the store that a step removes without replacing them
Deleted == {d \in cache : Matching(cache', d.resource_type, d.resource_id) = {}}

\* C32: an entry that leaves the store is older than the TTL at that moment:
\* a get that found an expired entry never deletes the entry that a
\* cache_resource wrote to the same key in the meantime.
C32_NoFreshEntryDeleted ==
    [][\A d \in Deleted : IsExpired(d, now)]_vars



\* every handler is waiting in receive_json, has ended, or has not begun: none
\* is in its join, in a broadcast, or in its `finally:` block, and none is
\* still to learn that its socket is closed
Quiet ==
    /\ \A c \in Conns : ws[c].pc \in {"idle", "receive", "done"}
    /\ \A c \in closed : ws[c].pc = "done"
Owners(sheet) == {UserOf(c) : c \in Range(active_connections[sheet])}

\* C33: when no handler is in a join, a leave or a broadcast, the users with a
\* presence entry on a channel are the users that own a connection in the
\* channel's subscriber list.
C33_PresenceMatchesSubscribers ==
    Quiet => \A sheet \in Sheets : PresentUsers(user_presence[sheet]) = Owners(sheet)



CompletedInFull(b) ==
    b.status = "completed" => b.progress = 100 /\ b.error_message = None

\* C34: a bulk operation with status completed has progress 100 and no error
\* message, in the task's object and in every stored record, whatever the
\* length of the batch.
C34_CompletedIsFull ==
    /\ bulk_op # NoBulkOp => CompletedInFull(bulk_op)
    /\ \A x \in StoredDocs : CompletedInFull(BulkFromDoc(x))



\* ====================================================================
\* Waiters of the coalescer (checked under SpecDedupLive)
\* ====================================================================
Awaiting(c) == c_pc[c] = "awaiting"
\* the future that caller c awaits can still be set: its originating call runs
Settable(c) ==
    \/ futures[c_fut[c]].kind # "none"
    \/ \E o \in Callers : c_pc[o] = "running" /\ c_fut[o] = c_fut[c]

\* C35: a caller that awaits the future of an entry of the table is resumed
\* with a result or a failure, however the originating call ends; at no time
\* does a caller await a future that nothing will set any more.
C35_WaitersAreReleased ==
    /\ \A c \in Callers : Awaiting(c) ~> (c_pc[c] = "done")
    /\ [](\A c \in Callers : Awaiting(c) => Settable(c))

====
